---- MODULE Spec2Model ----
(***************************************************************************)
(* A model of the cast kernel of arrow-cast (src/arrow-cast/src/cast.rs):  *)
(* the legality predicate can_cast_types, the dispatcher cast_with_options *)
(* and the kernels it routes to.                                           *)
(*                                                                         *)
(* A DataType is a record with a "tag" and the parameters of the variant.  *)
(* An Option<T> is the empty tuple (None) or a one-element tuple (Some).   *)
(* A primitive array is [data_type, values] with values a sequence of      *)
(* Option<integer>; a dictionary array is [data_type, keys, dict]; a list  *)
(* array is [data_type, nulls, offsets, child].                            *)
(*                                                                         *)
(* TLC's integers are 32 bits wide.  The 8-, 16- and 32-bit signed types   *)
(* and the 8- and 16-bit unsigned types keep their true ranges.  Every     *)
(* model integer lies inside the range of Int64, and every non-negative    *)
(* one inside UInt32 and UInt64.  The native integers of the decimal types *)
(* (i128, i256) are modelled with the narrower ranges Native128Max and     *)
(* Native256Max, so that native overflow happens inside the model.         *)
(***************************************************************************)
EXTENDS Integers, Sequences, FiniteSets, TLC

\* the arguments of one call of cast_with_options, the position of the caller,
\* the result of the call, and the result of casting that result back to the
\* type of the argument
VARIABLES arg_array, arg_to_type, arg_safe, pc, result, round_trip

vars == <<arg_array, arg_to_type, arg_safe, pc, result, round_trip>>

----------------------------------------------------------------------------
(* Option<T> *)
None == <<>>
Some(v) == <<v>>
IsSome(o) == Len(o) = 1
Unwrap(o) == o[1]

----------------------------------------------------------------------------
(* arrow_schema::DataType *)
T(tag) == [tag |-> tag]
Timestamp(unit, tz) == [tag |-> "Timestamp", unit |-> unit, tz |-> tz]
Time32(unit) == [tag |-> "Time32", unit |-> unit]
Time64(unit) == [tag |-> "Time64", unit |-> unit]
Duration(unit) == [tag |-> "Duration", unit |-> unit]
Interval(unit) == [tag |-> "Interval", unit |-> unit]
FixedSizeBinary(size) == [tag |-> "FixedSizeBinary", size |-> size]
List(child) == [tag |-> "List", child |-> child]
LargeList(child) == [tag |-> "LargeList", child |-> child]
FixedSizeList(child, size) == [tag |-> "FixedSizeList", child |-> child, size |-> size]
Struct(fields) == [tag |-> "Struct", fields |-> fields]
Map(child) == [tag |-> "Map", child |-> child]
Dictionary(key, value) == [tag |-> "Dictionary", key |-> key, value |-> value]
Decimal128(precision, scale) == [tag |-> "Decimal128", precision |-> precision, scale |-> scale]
Decimal256(precision, scale) == [tag |-> "Decimal256", precision |-> precision, scale |-> scale]

TimeUnit == {"Second", "Millisecond", "Microsecond", "Nanosecond"}
IntervalUnit == {"YearMonth", "DayTime", "MonthDayNano"}

UnsignedTags == {"UInt8", "UInt16", "UInt32", "UInt64"}
SignedTags == {"Int8", "Int16", "Int32", "Int64"}
IntegerTags == UnsignedTags \cup SignedTags
FloatTags == {"Float32", "Float64"}
StringTags == {"Utf8", "LargeUtf8"}

\* DataType::is_numeric
is_numeric(t) == t.tag \in IntegerTags \cup FloatTags \cup {"Float16"}

\* DataType::is_primitive
is_primitive(t) ==
    t.tag \in IntegerTags \cup FloatTags \cup
              {"Date32", "Date64", "Time32", "Time64", "Timestamp", "Interval",
               "Duration", "Decimal128", "Decimal256"}

DecimalTags == {"Decimal128", "Decimal256"}
\* the ten primitive numeric types of the "numeric casts" arms
NumericTags == IntegerTags \cup FloatTags
\* the targets of the (Null, ...) arm
NullTargetTags ==
    {"Boolean", "Int8", "UInt8", "Int16", "UInt16", "Int32", "UInt32", "Float32",
     "Date32", "Time32", "Int64", "UInt64", "Float64", "Date64", "Timestamp",
     "Time64", "Duration", "Interval", "FixedSizeBinary", "Binary", "Utf8",
     "LargeBinary", "LargeUtf8", "List", "LargeList", "FixedSizeList", "Struct",
     "Map", "Dictionary"}

\* the temporal and interval targets a string can be cast to
string_temporal_target(t) ==
    \/ t.tag \in {"Date32", "Date64", "Timestamp", "Interval"}
    \/ t.tag = "Time32" /\ t.unit \in {"Second", "Millisecond"}
    \/ t.tag = "Time64" /\ t.unit \in {"Microsecond", "Nanosecond"}

\* the arms of can_cast_types from "temporal casts" to the end
can_cast_temporal(from_type, to_type) ==
    LET f == from_type.tag
        t == to_type.tag
    IN  \/ f = "Int32" /\ t \in {"Date32", "Date64", "Time32"}
        \/ f = "Date32" /\ t \in {"Int32", "Int64"}
        \/ f = "Time32" /\ t = "Int32"
        \/ f = "Int64" /\ t \in {"Date64", "Date32", "Time64"}
        \/ f = "Date64" /\ t \in {"Int64", "Int32"}
        \/ f = "Time64" /\ t = "Int64"
        \/ f = "Date32" /\ t = "Date64"
        \/ f = "Date64" /\ t = "Date32"
        \/ f = "Time32" /\ t = "Time32" /\ from_type.unit = "Second" /\ to_type.unit = "Millisecond"
        \/ f = "Time32" /\ t = "Time32" /\ from_type.unit = "Millisecond" /\ to_type.unit = "Second"
        \/ f = "Time32" /\ t = "Time64"
        \/ f = "Time64" /\ t = "Time64" /\ from_type.unit = "Microsecond" /\ to_type.unit = "Nanosecond"
        \/ f = "Time64" /\ t = "Time64" /\ from_type.unit = "Nanosecond" /\ to_type.unit = "Microsecond"
        \/ f = "Time64" /\ t = "Time32" /\ to_type.unit \in {"Second", "Millisecond"}
        \/ f = "Timestamp" /\ t = "Int64"
        \/ f = "Int64" /\ t = "Timestamp"
        \/ f \in {"Date64", "Date32"} /\ t = "Timestamp" /\ to_type.tz = "None"
        \/ f = "Timestamp" /\ t \in {"Timestamp", "Date32", "Date64"}
        \/ f = "Timestamp" /\ t = "Time32" /\ to_type.unit \in {"Second", "Millisecond"}
        \/ f = "Timestamp" /\ t = "Time64" /\ to_type.unit \in {"Microsecond", "Nanosecond"}
        \/ f = "Int64" /\ t = "Duration"
        \/ f = "Duration" /\ t = "Int64"
        \/ f = "Interval" /\ t = "Int64" /\ from_type.unit \in {"YearMonth", "DayTime"}
        \/ f = "Int32" /\ t = "Interval" /\ to_type.unit = "YearMonth"
        \/ f = "Int64" /\ t = "Interval" /\ to_type.unit = "DayTime"
        \/ f = "Duration" /\ t = "Interval" /\ to_type.unit = "MonthDayNano"
        \/ f = "Interval" /\ t = "Duration" /\ from_type.unit = "MonthDayNano"

\* can_cast_types: the arms in source order
RECURSIVE can_cast_types(_, _)
can_cast_types(from_type, to_type) ==
    LET f == from_type.tag
        t == to_type.tag
    IN  IF from_type = to_type THEN TRUE
        ELSE IF f = "Null" /\ t \in NullTargetTags THEN TRUE
        ELSE IF f = "Dictionary" /\ t = "Dictionary"
            THEN can_cast_types(from_type.value, to_type.value)
        ELSE IF f = "Dictionary" THEN can_cast_types(from_type.value, to_type)
        ELSE IF t = "Dictionary" THEN can_cast_types(from_type, to_type.value)
        ELSE IF f = "LargeList" /\ t = "LargeList"
            THEN can_cast_types(from_type.child, to_type.child)
        ELSE IF f = "List" /\ t = "List"
            THEN can_cast_types(from_type.child, to_type.child)
        ELSE IF f = "List" /\ t = "LargeList" THEN from_type.child = to_type.child
        ELSE IF f = "LargeList" /\ t = "List" THEN from_type.child = to_type.child
        ELSE IF f \in {"List", "LargeList"} /\ t \in StringTags
            THEN can_cast_types(from_type.child, to_type)
        ELSE IF f = "List" THEN FALSE
        ELSE IF t = "List" THEN can_cast_types(from_type, to_type.child)
        ELSE IF t = "LargeList" THEN can_cast_types(from_type, to_type.child)
        ELSE IF f \in DecimalTags /\ t \in DecimalTags THEN TRUE
        ELSE IF f \in UnsignedTags /\ t \in DecimalTags THEN TRUE
        ELSE IF f \in {"Null"} \cup SignedTags \cup FloatTags /\ t \in DecimalTags THEN TRUE
        ELSE IF f \in DecimalTags /\ t \in UnsignedTags THEN TRUE
        ELSE IF f \in DecimalTags /\ t \in {"Null"} \cup SignedTags \cup FloatTags THEN TRUE
        ELSE IF f \in DecimalTags /\ t \in StringTags THEN TRUE
        ELSE IF f \in StringTags /\ t \in DecimalTags THEN TRUE
        ELSE IF f \in DecimalTags \/ t \in DecimalTags THEN FALSE
        ELSE IF f = "Struct" \/ t = "Struct" THEN FALSE
        ELSE IF t = "Boolean" THEN is_numeric(from_type) \/ f \in StringTags
        ELSE IF f = "Boolean" THEN is_numeric(to_type) \/ t \in StringTags
        ELSE IF f = "Binary" /\ t \in {"LargeBinary", "Utf8", "LargeUtf8", "FixedSizeBinary"} THEN TRUE
        ELSE IF f = "LargeBinary" /\ t \in {"Binary", "Utf8", "LargeUtf8", "FixedSizeBinary"} THEN TRUE
        ELSE IF f = "FixedSizeBinary" /\ t \in {"Binary", "LargeBinary"} THEN TRUE
        ELSE IF f = "Utf8" /\ (t \in {"Binary", "LargeBinary", "LargeUtf8"} \/ string_temporal_target(to_type))
            THEN TRUE
        ELSE IF f = "Utf8" THEN is_numeric(to_type) /\ t # "Float16"
        ELSE IF f = "LargeUtf8" /\ (t \in {"Binary", "LargeBinary", "Utf8"} \/ string_temporal_target(to_type))
            THEN TRUE
        ELSE IF f = "LargeUtf8" THEN is_numeric(to_type) /\ t # "Float16"
        ELSE IF t \in StringTags THEN is_primitive(from_type)
        ELSE IF f \in NumericTags /\ t \in NumericTags THEN TRUE
        ELSE can_cast_temporal(from_type, to_type)

----------------------------------------------------------------------------
(* Result<ArrayRef, ArrowError> *)
Ok(a) == [ok |-> TRUE, array |-> a]
\* An ArrowError: its variant, the fixed text of its message and the values
\* the message is formatted with.
Err(variant, text, args) == [ok |-> FALSE, error |-> variant, text |-> text, args |-> args]
\* The outcome of a kernel whose value semantics this model does not cover.
NotModelled == [ok |-> FALSE, error |-> "NotModelled", text |-> "", args |-> <<>>]

----------------------------------------------------------------------------
(* arrays *)
PrimitiveArray(data_type, values) == [data_type |-> data_type, values |-> values]
DictionaryArray(data_type, keys, dict) == [data_type |-> data_type, keys |-> keys, dict |-> dict]
ListArray(data_type, nulls, offsets, child) ==
    [data_type |-> data_type, nulls |-> nulls, offsets |-> offsets, child |-> child]

\* the validity of every slot of an array: TRUE where the slot is non-null
validity(a) ==
    IF a.data_type.tag = "Dictionary" THEN [i \in 1..Len(a.keys) |-> IsSome(a.keys[i])]
    ELSE IF a.data_type.tag \in {"List", "LargeList"} THEN a.nulls
    ELSE [i \in 1..Len(a.values) |-> IsSome(a.values[i])]

array_len(a) == Len(validity(a))
null_count(a) == Cardinality({i \in 1..array_len(a) : ~validity(a)[i]})

AllNone(n) == [i \in 1..n |-> None]

\* new_null_array: an array of data_type with len null slots
RECURSIVE new_null_array(_, _)
new_null_array(data_type, len) ==
    IF data_type.tag = "Dictionary"
    THEN DictionaryArray(data_type, AllNone(len), new_null_array(data_type.value, 0))
    ELSE IF data_type.tag \in {"List", "LargeList"}
    THEN ListArray(data_type, [i \in 1..len |-> FALSE], [i \in 1..(len + 1) |-> 0],
                   new_null_array(data_type.child, 0))
    ELSE PrimitiveArray(data_type, AllNone(len))

\* PrimitiveArray::unary_opt: op on every non-null value, None where op fails
unary_opt(values, op(_)) ==
    [i \in 1..Len(values) |-> IF IsSome(values[i]) THEN op(Unwrap(values[i])) ELSE None]

\* PrimitiveArray::try_unary stops at the first non-null slot where op fails:
\* the index of that slot, 0 when op succeeds everywhere
first_failure(values, op(_)) ==
    LET bad == {i \in 1..Len(values) : IsSome(values[i]) /\ ~IsSome(op(Unwrap(values[i])))}
    IN  IF bad = {} THEN 0 ELSE CHOOSE i \in bad : \A j \in bad : i <= j

\* a kernel this model covers for null slots only
null_only_kernel(array, to_type) ==
    IF null_count(array) = array_len(array)
    THEN Ok(new_null_array(to_type, array_len(array)))
    ELSE NotModelled

----------------------------------------------------------------------------
(* the 64-bit values of Date64, Time64, Timestamp and Duration arrays *)
\* The products of the temporal casts leave the range of the integers of the
\* model checker, so a value of these types is a sign and the magnitude in
\* groups of three decimal digits, most significant first and without leading
\* zero groups: 864000000005 is Wide(FALSE, <<864, 0, 0, 5>>) and zero is
\* Wide(FALSE, <<0>>).  The values of every other type are plain integers.
Wide(neg, groups) == [neg |-> neg, groups |-> groups]
is_wide(data_type) == data_type.tag \in {"Date64", "Time64", "Timestamp", "Duration"}

Front(s) == SubSeq(s, 1, Len(s) - 1)
Last(s) == s[Len(s)]

RECURSIVE strip(_)
strip(gs) ==
    IF gs = <<>> THEN <<0>>
    ELSE IF Len(gs) > 1 /\ gs[1] = 0 THEN strip(Tail(gs))
    ELSE gs

\* magnitudes: comparison, a * k + carry, and the quotient and remainder of
\* a / m, for k and m up to a million
mag_lt(a, b) ==
    \/ Len(a) < Len(b)
    \/ /\ Len(a) = Len(b)
       /\ \E k \in 1..Len(a) : a[k] < b[k] /\ \A j \in 1..(k - 1) : a[j] = b[j]
mag_le(a, b) == a = b \/ mag_lt(a, b)

RECURSIVE mag_mul_carry(_, _, _)
mag_mul_carry(a, k, carry) ==
    IF a = <<>> THEN IF carry < 1000 THEN <<carry>>
                     ELSE mag_mul_carry(<<>>, k, carry \div 1000) \o <<carry % 1000>>
    ELSE mag_mul_carry(Front(a), k, (Last(a) * k + carry) \div 1000)
             \o <<(Last(a) * k + carry) % 1000>>
mag_mul_add(a, k, carry) == strip(mag_mul_carry(a, k, carry))

RECURSIVE mag_div_carry(_, _, _)
mag_div_carry(a, m, r) ==
    IF a = <<>> THEN [q |-> <<>>, r |-> r]
    ELSE LET cur == r * 1000 + a[1]
             rest == mag_div_carry(Tail(a), m, cur % m)
         IN  [q |-> <<cur \div m>> \o rest.q, r |-> rest.r]
mag_div(a, m) == strip(mag_div_carry(a, m, 0).q)
mag_mod(a, m) == mag_div_carry(a, m, 0).r

\* the signed numbers
signed(neg, mag) == Wide(neg /\ mag # <<0>>, mag)
\* x as i64, for an integer x of the model
as_i64(x) ==
    IF x < 0 THEN Wide(TRUE, mag_mul_add(mag_mul_add(<<0>>, 0, -(x + 1)), 1, 1))
    ELSE Wide(FALSE, mag_mul_add(<<0>>, 0, x))
wide_neg(x) == signed(~x.neg, x.groups)
wide_lt(x, y) ==
    IF x.neg # y.neg THEN x.neg
    ELSE IF x.neg THEN mag_lt(y.groups, x.groups)
    ELSE mag_lt(x.groups, y.groups)
wide_le(x, y) == x = y \/ wide_lt(x, y)

\* An i64 multiplier or divisor of the casts is a sequence of factors of at
\* most a million each, whose product it is.
factors(c) == IF c <= 1000000 THEN <<c>> ELSE <<1000, c \div 1000>>
\* x * c, in the integers
RECURSIVE wide_mul(_, _)
wide_mul(x, c) ==
    IF c = <<>> THEN x
    ELSE wide_mul(signed(x.neg, mag_mul_add(x.groups, c[1], 0)), Tail(c))
\* x / c of Rust: the quotient is truncated towards zero
RECURSIVE wide_div(_, _)
wide_div(x, c) ==
    IF c = <<>> THEN x
    ELSE wide_div(signed(x.neg, mag_div(x.groups, c[1])), Tail(c))

I32_MAX == Wide(FALSE, <<2, 147, 483, 647>>)
I64_MAX == Wide(FALSE, <<9, 223, 372, 36, 854, 775, 807>>)
\* whether x is a value of the two's complement type with this greatest value
fits(x, max) ==
    IF x.neg THEN mag_le(x.groups, mag_mul_add(max.groups, 1, 1))
    ELSE mag_le(x.groups, max.groups)

\* the integer of the model that a number inside the range of i32 is
RECURSIVE groups_int(_)
groups_int(gs) == IF gs = <<>> THEN 0 ELSE 1000 * groups_int(Front(gs)) + Last(gs)
to_int(x) ==
    IF x.groups = <<2, 147, 483, 648>> THEN -2147483647 - 1
    ELSE IF x.neg THEN -groups_int(x.groups) ELSE groups_int(x.groups)

\* The two's complement number of 16 * n bits that x wraps to.  words is
\* the magnitude of x modulo 2^(16 * n) in n words of 16 bits, the lowest
\* first; negated is the two's complement of such words.
RECURSIVE words(_, _)
words(a, n) == IF n = 0 THEN <<>> ELSE <<mag_mod(a, 65536)>> \o words(mag_div(a, 65536), n - 1)
RECURSIVE incremented(_)
incremented(ws) ==
    IF ws = <<>> THEN <<>>
    ELSE IF ws[1] = 65535 THEN <<0>> \o incremented(Tail(ws))
    ELSE <<ws[1] + 1>> \o Tail(ws)
negated(ws) == incremented([i \in 1..Len(ws) |-> 65535 - ws[i]])
RECURSIVE words_mag(_)
words_mag(ws) == IF ws = <<>> THEN <<0>> ELSE mag_mul_add(words_mag(Tail(ws)), 65536, ws[1])
wrapping(x, n) ==
    LET ws == IF x.neg THEN negated(words(x.groups, n)) ELSE words(x.groups, n)
    IN  IF ws[n] >= 32768 THEN signed(TRUE, words_mag(negated(ws)))
        ELSE Wide(FALSE, words_mag(ws))
\* x as i32, for a 64-bit x
as_i32(x) == to_int(wrapping(x, 2))

\* i64::checked_mul
checked_mul(x, c) == IF fits(wide_mul(x, c), I64_MAX) THEN Some(wide_mul(x, c)) ELSE None

----------------------------------------------------------------------------
(* strings of decimal numbers: a str is the sequence of its characters *)
DigitChars == <<"0", "1", "2", "3", "4", "5", "6", "7", "8", "9">>
is_digit(c) == \E d \in 1..10 : DigitChars[d] = c
digit_value(c) == (CHOOSE d \in 1..10 : DigitChars[d] = c) - 1

\* the value of a sequence of digits
RECURSIVE digits_value(_)
digits_value(str) ==
    IF str = <<>> THEN 0
    ELSE 10 * digits_value(SubSeq(str, 1, Len(str) - 1)) + digit_value(str[Len(str)])

\* i256::from_string: an optional sign and at least one digit, nothing else
from_string(str) ==
    LET negative == str # <<>> /\ str[1] = "-"
        digits == IF negative THEN Tail(str) ELSE str
    IN  IF digits = <<>> \/ \E i \in 1..Len(digits) : ~is_digit(digits[i]) THEN None
        ELSE IF negative THEN Some(-digits_value(digits))
        ELSE Some(digits_value(digits))

\* the digits of n >= 0
RECURSIVE digits_of(_)
digits_of(n) ==
    IF n < 10 THEN <<DigitChars[n + 1]>>
    ELSE digits_of(n \div 10) \o <<DigitChars[(n % 10) + 1]>>

\* format!("{}", n) of an integer
to_string(n) == IF n < 0 THEN <<"-">> \o digits_of(-n) ELSE digits_of(n)

\* str::trim on the blanks of the model
RECURSIVE trim(_)
trim(str) ==
    IF str # <<>> /\ str[1] = " " THEN trim(Tail(str))
    ELSE IF str # <<>> /\ str[Len(str)] = " " THEN trim(SubSeq(str, 1, Len(str) - 1))
    ELSE str

\* str::split('.'): the parts between the dots, at least one
RECURSIVE split_dot(_)
split_dot(str) ==
    IF \A i \in 1..Len(str) : str[i] # "."
    THEN <<str>>
    ELSE LET i == CHOOSE k \in 1..Len(str) : str[k] = "." /\ \A j \in 1..(k - 1) : str[j] # "."
         IN  <<SubSeq(str, 1, i - 1)>> \o split_dot(SubSeq(str, i + 1, Len(str)))

\* str::trim_start_matches('0')
RECURSIVE trim_start_zeros(_)
trim_start_zeros(str) ==
    IF str # <<>> /\ str[1] = "0" THEN trim_start_zeros(Tail(str)) ELSE str

\* format!("{str:0<width$}"): zeros appended up to width characters
RECURSIVE pad_right_zeros(_, _)
pad_right_zeros(str, width) ==
    IF Len(str) >= width THEN str ELSE pad_right_zeros(str \o <<"0">>, width)

\* format!("{str:0>width$}"): zeros put in front up to width characters
RECURSIVE pad_left_zeros(_, _)
pad_left_zeros(str, width) ==
    IF Len(str) >= width THEN str ELSE pad_left_zeros(<<"0">> \o str, width)

\* DecimalType::format_decimal: the digits cut to the precision, the point
\* put scale digits from the right
format_decimal(value, precision, scale) ==
    LET sign == IF value < 0 THEN <<"-">> ELSE <<>>
        all == digits_of(IF value < 0 THEN -value ELSE value)
        rest == SubSeq(all, 1, IF precision < Len(all) THEN precision ELSE Len(all))
    IN  IF scale = 0 THEN sign \o rest
        ELSE IF scale < 0 THEN pad_right_zeros(sign \o rest, Len(sign \o rest) - scale)
        ELSE IF Len(all) > scale
        THEN sign \o SubSeq(rest, 1, Len(rest) - scale) \o <<".">>
                  \o SubSeq(rest, Len(rest) - scale + 1, Len(rest))
        ELSE sign \o <<"0", ".">> \o pad_left_zeros(all, scale)

\* value_to_string: every non-null value formatted; the formats of the
\* integer types (as TLA+ strings) and of the decimal types are modelled
value_to_string(array, to_type) ==
    IF array.data_type.tag \in IntegerTags
    THEN Ok(PrimitiveArray(to_type, unary_opt(array.values, LAMBDA v : Some(ToString(v)))))
    ELSE IF array.data_type.tag \in {"Decimal128", "Decimal256"}
    THEN Ok(PrimitiveArray(to_type,
                unary_opt(array.values,
                          LAMBDA v : Some(format_decimal(v, array.data_type.precision,
                                                         array.data_type.scale)))))
    ELSE null_only_kernel(array, to_type)

----------------------------------------------------------------------------
(* native integers *)
\* whether the integer v is a value of the integer type with this tag
in_range(v, tag) ==
    CASE tag = "Int8" -> -128 <= v /\ v <= 127
      [] tag = "UInt8" -> 0 <= v /\ v <= 255
      [] tag = "Int16" -> -32768 <= v /\ v <= 32767
      [] tag = "UInt16" -> 0 <= v /\ v <= 65535
      [] tag \in {"UInt32", "UInt64"} -> 0 <= v
      [] OTHER -> TRUE

\* num::cast::cast between integer types: Some(v) when v is a value of the target
num_cast(v, tag) == IF in_range(v, tag) THEN Some(v) ELSE None

\* An Int64 array with a value outside the integers of the model holds every
\* value as a 64-bit number, like a Date64 array, and says so in a field.
WideInt64Array(values) == [data_type |-> T("Int64"), values |-> values, wide |-> TRUE]
holds_wide(array) == "wide" \in DOMAIN array
\* the Int64 array of these 64-bit numbers
Int64Array(values) ==
    IF \A i \in 1..Len(values) : IsSome(values[i]) => fits(Unwrap(values[i]), I32_MAX)
    THEN PrimitiveArray(T("Int64"), unary_opt(values, LAMBDA v : Some(to_int(v))))
    ELSE WideInt64Array(values)
\* the integer types all of whose values are integers of the model
NarrowTags == {"Int8", "Int16", "Int32", "UInt8", "UInt16"}
\* num::cast::cast of the i64 x to a narrower type
num_cast_i64(x, tag) == IF fits(x, I32_MAX) THEN num_cast(to_int(x), tag) ELSE None
\* the conversion of the values of from
num_cast_of(from, v, tag) == IF holds_wide(from) THEN num_cast_i64(v, tag) ELSE num_cast(v, tag)

\* numeric_cast with the conversion unchecked: every value is kept
numeric_cast_unchecked(from, to_type) == PrimitiveArray(to_type, from.values)

\* numeric_cast: unrepresentable values become null
numeric_cast(from, to_type) ==
    PrimitiveArray(to_type, unary_opt(from.values, LAMBDA v : num_cast_of(from, v, to_type.tag)))

\* try_numeric_cast with the failure of the conversion dropped
try_numeric_cast_lenient(from, to_type) == Ok(numeric_cast(from, to_type))

\* try_numeric_cast: the first unrepresentable value is the error
try_numeric_cast(from, to_type) ==
    LET i == first_failure(from.values, LAMBDA v : num_cast_of(from, v, to_type.tag))
    IN  IF i = 0 THEN Ok(numeric_cast(from, to_type))
        ELSE Err("CastError", "Can't cast value {} to type {}",
                 <<Unwrap(from.values[i]), to_type>>)

\* cast_numeric_arrays; values of the floating-point types are not modelled
cast_numeric_arrays(from, to_type, safe) ==
    IF from.data_type.tag \notin IntegerTags \cup {"Interval"} \/ to_type.tag \notin IntegerTags
    THEN null_only_kernel(from, to_type)
    ELSE IF holds_wide(from) /\ to_type.tag \notin NarrowTags THEN NotModelled
    ELSE IF safe THEN Ok(numeric_cast(from, to_type))
    ELSE try_numeric_cast(from, to_type)

\* cast_reinterpret_arrays: the same values under another type.  Between
\* Int64 and a 64-bit temporal type the values may change their
\* representation in the model.
cast_reinterpret_arrays(array, to_type) ==
    IF is_wide(to_type)
    THEN IF is_wide(array.data_type) \/ holds_wide(array)
         THEN Ok(PrimitiveArray(to_type, array.values))
         ELSE Ok(PrimitiveArray(to_type, unary_opt(array.values, LAMBDA v : Some(as_i64(v)))))
    ELSE IF is_wide(array.data_type) THEN Ok(Int64Array(array.values))
    ELSE Ok(PrimitiveArray(to_type, array.values))

----------------------------------------------------------------------------
(* decimal arrays *)
\* the widths of the model's stand-ins for i128 and i256
Native128Max == 8388607
Native256Max == 1073741823
\* Decimal128Type::MAX_PRECISION, MAX_SCALE and Decimal256Type's
DECIMAL128_MAX_PRECISION == 38
DECIMAL256_MAX_PRECISION == 76

native_max(tag) == IF tag = "Decimal128" THEN Native128Max ELSE Native256Max
max_precision(tag) ==
    IF tag = "Decimal128" THEN DECIMAL128_MAX_PRECISION ELSE DECIMAL256_MAX_PRECISION
decimal_type(tag, precision, scale) == [tag |-> tag, precision |-> precision, scale |-> scale]

\* whether v is a value of the native integer of the decimal type with this tag
fits_native(v, tag) == -native_max(tag) - 1 <= v /\ v <= native_max(tag)

\* from_decimal with the width of the native integer unchecked
from_decimal_unchecked(v, tag) == Some(v)

\* DecimalCast::from_decimal: conversion into the native integer of tag
from_decimal(v, tag) == IF fits_native(v, tag) THEN Some(v) ELSE None

\* 10.pow_checked(exp) in the native integer of tag
RECURSIVE pow_checked(_, _)
pow_checked(exp, tag) ==
    IF exp = 0 THEN Some(1)
    ELSE LET p == pow_checked(exp - 1, tag)
         IN  IF IsSome(p) /\ Unwrap(p) <= native_max(tag) \div 10
             THEN Some(Unwrap(p) * 10) ELSE None

\* x.mul_checked(m) in the native integer of tag, for m >= 1
mul_checked(x, m, tag) ==
    IF x >= 0
    THEN IF x <= native_max(tag) \div m THEN Some(x * m) ELSE None
    ELSE IF -x <= (native_max(tag) + 1) \div m THEN Some(x * m) ELSE None

\* x / d and x % d of Rust's integers (truncation toward zero), for d >= 1
div_wrapping(x, d) == IF x >= 0 THEN x \div d ELSE -((-x) \div d)
mod_wrapping(x, d) == x - d * div_wrapping(x, d)

\* PrimitiveArray::with_precision_and_scale: only the parameters are validated
with_precision_and_scale(values, tag, precision, scale) ==
    IF precision = 0
    THEN Err("InvalidArgumentError", "precision cannot be 0, has to be between [1, {}]",
             <<max_precision(tag)>>)
    ELSE IF precision > max_precision(tag)
    THEN Err("InvalidArgumentError", "precision {} is greater than max {}",
             <<precision, max_precision(tag)>>)
    ELSE IF scale > max_precision(tag)
    THEN Err("InvalidArgumentError", "scale {} is greater than max {}",
             <<scale, max_precision(tag)>>)
    ELSE IF scale > 0 /\ scale > precision
    THEN Err("InvalidArgumentError", "scale {} is greater than precision {}",
             <<scale, precision>>)
    ELSE Ok(PrimitiveArray(decimal_type(tag, precision, scale), values))

cast_decimal_to_decimal_error(O, output_precision, output_scale, x) ==
    Err("CastError", "Cannot cast to {}({}, {}). Overflowing on {}",
        <<O, output_precision, output_scale, x>>)

\* the closure f with the quotient left truncated
smaller_scale_value_truncating(x, divisor, O) == from_decimal(div_wrapping(x, divisor), O)

\* the closure f of convert_to_smaller_scale_decimal: divide and round
smaller_scale_value(x, divisor, O) ==
    LET half == div_wrapping(divisor, 2)
        half_neg == -half
        d == div_wrapping(x, divisor)
        r == mod_wrapping(x, divisor)
        adjusted == IF x >= 0 /\ r >= half THEN d + 1
                    ELSE IF x < 0 /\ r <= half_neg THEN d - 1
                    ELSE d
    IN  from_decimal(adjusted, O)

\* the closure f of convert_to_bigger_or_equal_scale_decimal
bigger_scale_value(x, mul, O) ==
    LET y == from_decimal(x, O)
    IN  IF IsSome(y) THEN mul_checked(Unwrap(y), mul, O) ELSE None

\* unary_opt under safe, try_unary with the decimal error otherwise
decimal_unary(values, f(_), O, output_precision, output_scale, safe) ==
    LET i == first_failure(values, f)
    IN  IF safe \/ i = 0 THEN Ok(unary_opt(values, f))
        ELSE cast_decimal_to_decimal_error(O, output_precision, output_scale,
                                           Unwrap(values[i]))

convert_to_smaller_scale_decimal(array, O, input_scale, output_precision, output_scale, safe) ==
    LET divisor == pow_checked(input_scale - output_scale, array.data_type.tag)
    IN  IF ~IsSome(divisor)
        THEN Err("ComputeError", "Overflow happened on: {} ^ {}",
                 <<10, input_scale - output_scale>>)
        ELSE decimal_unary(array.values,
                           LAMBDA x : smaller_scale_value(x, Unwrap(divisor), O),
                           O, output_precision, output_scale, safe)

convert_to_bigger_or_equal_scale_decimal(array, O, input_scale, output_precision, output_scale, safe) ==
    LET mul == pow_checked(output_scale - input_scale, O)
    IN  IF ~IsSome(mul)
        THEN Err("ComputeError", "Overflow happened on: {} ^ {}",
                 <<10, output_scale - input_scale>>)
        ELSE decimal_unary(array.values,
                           LAMBDA x : bigger_scale_value(x, Unwrap(mul), O),
                           O, output_precision, output_scale, safe)

\* the ? of a kernel followed by with_precision_and_scale
then_with_precision_and_scale(r, tag, output_precision, output_scale) ==
    IF r.ok THEN with_precision_and_scale(r.array, tag, output_precision, output_scale)
    ELSE r

cast_decimal_to_decimal_same_type(array, input_scale, output_precision, output_scale, safe) ==
    LET tag == array.data_type.tag
        converted ==
            IF input_scale = output_scale THEN Ok(array.values)
            ELSE IF input_scale > output_scale
            THEN convert_to_smaller_scale_decimal(array, tag, input_scale,
                                                  output_precision, output_scale, safe)
            ELSE convert_to_bigger_or_equal_scale_decimal(array, tag, input_scale,
                                                          output_precision, output_scale, safe)
    IN  then_with_precision_and_scale(converted, tag, output_precision, output_scale)

cast_decimal_to_decimal(array, O, input_scale, output_precision, output_scale, safe) ==
    LET converted ==
            IF input_scale > output_scale
            THEN convert_to_smaller_scale_decimal(array, O, input_scale,
                                                  output_precision, output_scale, safe)
            ELSE convert_to_bigger_or_equal_scale_decimal(array, O, input_scale,
                                                          output_precision, output_scale, safe)
    IN  then_with_precision_and_scale(converted, O, output_precision, output_scale)

----------------------------------------------------------------------------
(* integers and decimals *)
\* the outcome of a closure of try_unary that produced the value v
Value(v) == [ok |-> TRUE, value |-> v]

\* PrimitiveArray::try_unary: the error of the first non-null slot where op
\* fails, the converted values otherwise
try_unary(values, op(_)) ==
    LET opt(v) == IF op(v).ok THEN Some(op(v).value) ELSE None
        i == first_failure(values, opt)
    IN  IF i = 0 THEN Ok(unary_opt(values, opt)) ELSE op(Unwrap(values[i]))

\* PrimitiveArray::unary_opt on the same closure: null where op fails
unary_opt_ok(values, op(_)) ==
    Ok(unary_opt(values, LAMBDA v : IF op(v).ok THEN Some(op(v).value) ELSE None))

\* i8::unsigned_abs
unsigned_abs(x) == IF x < 0 THEN -x ELSE x

\* MAX_DECIMAL_FOR_EACH_PRECISION[precision - 1], that is 10^precision - 1;
\* from ten digits on it is above every integer of the model
RECURSIVE max_decimal_for_precision(_)
max_decimal_for_precision(precision) ==
    IF precision = 0 THEN 0
    ELSE IF precision >= 10 THEN 2147483647
    ELSE 10 * max_decimal_for_precision(precision - 1) + 9

\* DecimalType::validate_decimal_precision
validate_decimal_precision(value, D, precision) ==
    LET max == max_decimal_for_precision(precision)
    IN  IF precision = 0 THEN NotModelled
        ELSE IF precision > max_precision(D)
        THEN Err("InvalidArgumentError", "Max precision of a {} is {}, but got {}",
                 <<D, max_precision(D), precision>>)
        ELSE IF value > max
        THEN Err("InvalidArgumentError",
                 "{} is too large to store in a {} of precision {}. Max is {}",
                 <<value, D, precision, max>>)
        ELSE IF value < -max
        THEN Err("InvalidArgumentError",
                 "{} is too small to store in a {} of precision {}. Min is {}",
                 <<value, D, precision, -max>>)
        ELSE Value(value)

\* the closure of cast_integer_to_decimal without the precision check
integer_to_decimal_value_unvalidated(v, scale_factor, D, precision, scale) ==
    LET r == IF scale < 0 THEN Some(div_wrapping(v, scale_factor))
             ELSE mul_checked(v, scale_factor, D)
    IN  IF IsSome(r) THEN Value(Unwrap(r))
        ELSE Err("ComputeError", "Overflow happened on: {} * {}", <<v, scale_factor>>)

\* the closure of cast_integer_to_decimal: v.as_() divided or multiplied by
\* the scale factor, then validated against the precision
integer_to_decimal_value(v, scale_factor, D, precision, scale) ==
    LET r == IF scale < 0 THEN Some(div_wrapping(v, scale_factor))
             ELSE mul_checked(v, scale_factor, D)
    IN  IF IsSome(r) THEN validate_decimal_precision(Unwrap(r), D, precision)
        ELSE Err("ComputeError", "Overflow happened on: {} * {}", <<v, scale_factor>>)

cast_integer_to_decimal(array, D, precision, scale, safe) ==
    LET scale_factor == pow_checked(unsigned_abs(scale), D)
        f(v) == integer_to_decimal_value(v, Unwrap(scale_factor), D, precision, scale)
    IN  IF ~IsSome(scale_factor)
        THEN Err("CastError", "Cannot cast to {}({}, {}). The scale causes overflow.",
                 <<D, precision, scale>>)
        ELSE then_with_precision_and_scale(
                 IF safe THEN unary_opt_ok(array.values, f) ELSE try_unary(array.values, f),
                 D, precision, scale)

\* the loop body of cast_decimal_to_integer with the quotient rounded half
\* away from zero
decimal_to_integer_value_rounding(x, div, to_type) ==
    LET v == IF x >= 0 THEN (x + div \div 2) \div div ELSE -((-x + div \div 2) \div div)
    IN  IF IsSome(num_cast(v, to_type.tag)) THEN Value(v)
        ELSE Err("CastError", "value of {} is out of range {}", <<v, to_type>>)

\* the loop body of cast_decimal_to_integer: divide, then NumCast::from
decimal_to_integer_value(x, div, to_type) ==
    LET v == div_wrapping(x, div)
    IN  IF IsSome(num_cast(v, to_type.tag)) THEN Value(v)
        ELSE Err("CastError", "value of {} is out of range {}", <<v, to_type>>)

\* cast_decimal_to_integer with the divisor computed inside the loop
cast_decimal_to_integer_lazy(array, to_type, scale, safe) ==
    LET D == array.data_type.tag
        div == IF scale < 0 THEN None ELSE pow_checked(scale, D)
        f(x) == IF IsSome(div) THEN decimal_to_integer_value(x, Unwrap(div), to_type)
                ELSE Err("CastError", "Cannot cast to {}. The scale {} causes overflow.",
                         <<D, scale>>)
        r == IF safe THEN unary_opt_ok(array.values, f) ELSE try_unary(array.values, f)
    IN  IF r.ok THEN Ok(PrimitiveArray(to_type, r.array)) ELSE r

\* cast_decimal_to_integer; `scale as u32` of a negative scale is above 2^31,
\* and ten to that power overflows every native integer
cast_decimal_to_integer(array, to_type, scale, safe) ==
    LET D == array.data_type.tag
        div == IF scale < 0 THEN None ELSE pow_checked(scale, D)
        f(x) == decimal_to_integer_value(x, Unwrap(div), to_type)
        r == IF safe THEN unary_opt_ok(array.values, f) ELSE try_unary(array.values, f)
    IN  IF ~IsSome(div)
        THEN Err("CastError", "Cannot cast to {}. The scale {} causes overflow.",
                 <<D, scale>>)
        ELSE IF r.ok THEN Ok(PrimitiveArray(to_type, r.array)) ELSE r

----------------------------------------------------------------------------
(* strings to decimals *)
\* 10_f64.powi(scale) and i256's 10.pow(scale) for 0 <= scale, where the
\* power is below the limit of either
RECURSIVE powi(_)
powi(scale) == IF scale = 0 THEN 1 ELSE 10 * powi(scale - 1)

\* the rounding of parse_string_to_decimal_native with the fraction cut
fraction_to_scale_truncating(decimal_number, div) == div_wrapping(decimal_number, div)

\* the fraction of more than scale digits divided by div and rounded
fraction_to_scale(decimal_number, div) ==
    LET half == div_wrapping(div, 2)
        half_neg == -half
        d == div_wrapping(decimal_number, div)
        r == mod_wrapping(decimal_number, div)
    IN  IF decimal_number >= 0 /\ r >= half THEN d + 1
        ELSE IF decimal_number < 0 /\ r <= half_neg THEN d - 1
        ELSE d

\* the last i256::from_string of parse_string_to_decimal_native
parse_number_decimals(str) == from_string(str)

\* parse_string_to_decimal_native; its i256 arithmetic holds every number
\* that the strings of the model denote
parse_string_to_decimal_native(value_str, scale, D) ==
    LET str == trim(value_str)
        parts == split_dot(str)
        integers == trim_start_zeros(parts[1])
        decimals == IF Len(parts) = 2 THEN parts[2] ELSE <<>>
        decimal_number == from_string(decimals)
        whole == from_string(integers)
        number_decimals ==
            IF Len(decimals) > scale
            THEN to_string((IF integers # <<>> THEN Unwrap(whole) * powi(scale) ELSE 0)
                           + fraction_to_scale(Unwrap(decimal_number),
                                               powi(Len(decimals) - scale)))
            ELSE integers \o pad_right_zeros(decimals, IF scale > Len(decimals) THEN scale ELSE 0)
        value == parse_number_decimals(number_decimals)
    IN  IF Len(parts) > 2
        THEN Err("InvalidArgumentError", "Invalid decimal format: {}", <<str>>)
        ELSE IF Len(decimals) > scale
                /\ (~IsSome(decimal_number) \/ (integers # <<>> /\ ~IsSome(whole)))
        THEN Err("InvalidArgumentError", "Cannot parse decimal format: {}", <<str>>)
        ELSE IF ~IsSome(value)
        THEN Err("InvalidArgumentError", "Cannot convert {} to {}: Overflow", <<str, D>>)
        ELSE IF ~IsSome(from_decimal(Unwrap(value), D))
        THEN Err("InvalidArgumentError", "Cannot convert {} to {}", <<str, D>>)
        ELSE Value(Unwrap(value))

string_to_decimal_cast(from, D, precision, scale, safe) ==
    LET f(v) == parse_string_to_decimal_native(v, scale, D)
        g(v) == IF f(v).ok THEN f(v)
                ELSE Err("CastError", "Cannot cast string '{}' to value of {} type", <<v, D>>)
    IN  then_with_precision_and_scale(
            IF safe THEN unary_opt_ok(from.values, f) ELSE try_unary(from.values, g),
            D, precision, scale)

\* cast_string_to_decimal with its two checks of the scale made only once an
\* element is to be parsed
cast_string_to_decimal_unchecked_scale(from, D, precision, scale, safe) ==
    IF null_count(from) = array_len(from)
    THEN Ok(PrimitiveArray([tag |-> D, precision |-> precision, scale |-> scale],
                           from.values))
    ELSE IF scale < 0
    THEN Err("InvalidArgumentError", "Cannot cast string to decimal with negative scale {}",
             <<scale>>)
    ELSE IF scale > max_precision(D)
    THEN Err("InvalidArgumentError",
             "Cannot cast string to decimal greater than maximum scale {}",
             <<max_precision(D)>>)
    ELSE string_to_decimal_cast(from, D, precision, scale, safe)

cast_string_to_decimal(from, D, precision, scale, safe) ==
    IF scale < 0
    THEN Err("InvalidArgumentError", "Cannot cast string to decimal with negative scale {}",
             <<scale>>)
    ELSE IF scale > max_precision(D)
    THEN Err("InvalidArgumentError",
             "Cannot cast string to decimal greater than maximum scale {}",
             <<max_precision(D)>>)
    ELSE string_to_decimal_cast(from, D, precision, scale, safe)

----------------------------------------------------------------------------
(* floating-point numbers to decimals *)
\* The floating-point values of the model are the multiples of 1/4, held as
\* their number of quarters: they, their products with a power of ten
\* 10^scale, scale >= 0, and the roundings of these are exact in f32 and f64.
\* f64::round of mul * v, halves away from zero
round_scaled(quarters, mul) ==
    LET n == mul * quarters
    IN  IF n >= 0 THEN (n + 2) \div 4 ELSE -((-n + 2) \div 4)

\* (mul * v.as_()).round().to_i128() and i256::from_f64((v.as_() * mul).round())
float_to_decimal_value(v, mul, D, precision, scale) ==
    LET n == round_scaled(v, mul)
    IN  IF fits_native(n, D) THEN Value(n)
        ELSE Err("CastError", "Cannot cast to {}({}, {}). Overflowing on {}",
                 <<D, precision, scale, v>>)

\* cast_floating_point_to_decimal128 and cast_floating_point_to_decimal256;
\* a negative scale makes mul a fraction of inexact value, which the model
\* does not cover
cast_floating_point_to_decimal(array, D, precision, scale, safe) ==
    LET f(v) == float_to_decimal_value(v, powi(scale), D, precision, scale)
    IN  IF scale < 0 THEN null_only_kernel(array, decimal_type(D, precision, scale))
        ELSE then_with_precision_and_scale(
                 IF safe THEN unary_opt_ok(array.values, f) ELSE try_unary(array.values, f),
                 D, precision, scale)

----------------------------------------------------------------------------
(* dictionary and list kernels; they call the dispatcher on their children *)
RECURSIVE cast_with_options(_, _, _)

\* the final arm with the two types of its message written in the other order
unsupported_swapped(from_type, to_type) ==
    Err("CastError", "Casting from {} to {} not supported", <<to_type, from_type>>)

\* the final arm of the dispatcher and the inner arms with the same message
unsupported(from_type, to_type) ==
    Err("CastError", "Casting from {} to {} not supported", <<from_type, to_type>>)

\* arrow_select::take of lists: the list an index names is copied with its
\* elements, also when it is null; a null index gives a null list without
\* elements
take_list(values, indices) ==
    LET n == Len(indices)
        start(i) == values.offsets[Unwrap(indices[i]) + 1]
        length(i) == IF IsSome(indices[i])
                     THEN values.offsets[Unwrap(indices[i]) + 2] - start(i) ELSE 0
        before(i) == {<<j, k>> \in (1..n) \X (1..Len(values.child.values)) :
                         j < i /\ k <= length(j)}
        total == Cardinality(before(n + 1))
        slot(p) == CHOOSE jk \in before(n + 1) : Cardinality(before(jk[1])) + jk[2] = p
    IN  IF values.child.data_type.tag \in {"Dictionary", "List", "LargeList"} THEN NotModelled
        ELSE Ok(ListArray(values.data_type,
                          [i \in 1..n |-> IsSome(indices[i])
                                          /\ values.nulls[Unwrap(indices[i]) + 1]],
                          [i \in 1..(n + 1) |-> Cardinality(before(i))],
                          PrimitiveArray(values.child.data_type,
                                         [p \in 1..total |->
                                             values.child.values[start(slot(p)[1])
                                                                 + slot(p)[2]]])))

\* take with the slots of the null indices left out
take_compacting(values, indices) ==
    IF values.data_type.tag \in {"List", "LargeList", "Dictionary"} THEN NotModelled
    ELSE Ok(PrimitiveArray(values.data_type,
                           LET kept == SelectSeq(indices, LAMBDA k : IsSome(k))
                           IN  [i \in 1..Len(kept) |-> values.values[Unwrap(kept[i]) + 1]]))

\* arrow_select::take of the slots of values that indices name
take(values, indices) ==
    IF \A i \in 1..Len(indices) : ~IsSome(indices[i])
    THEN Ok(new_null_array(values.data_type, Len(indices)))
    ELSE IF values.data_type.tag \in {"List", "LargeList"} THEN take_list(values, indices)
    ELSE IF values.data_type.tag = "Dictionary" THEN NotModelled
    ELSE Ok(PrimitiveArray(values.data_type,
                           [i \in 1..Len(indices) |->
                               IF IsSome(indices[i])
                               THEN values.values[Unwrap(indices[i]) + 1] ELSE None]))

unpack_dictionary(array, to_type, safe) ==
    LET cast_dict_values == cast_with_options(array.dict, to_type, safe)
        keys_array == PrimitiveArray(array.data_type.key, array.keys)
        indices == cast_with_options(keys_array, T("UInt32"), safe)
    IN  IF ~cast_dict_values.ok THEN cast_dict_values
        ELSE IF ~indices.ok THEN indices
        ELSE take(cast_dict_values.array, indices.array.values)

\* dictionary_cast without the comparison of the null counts: keys that do
\* not fit come back as null keys
dictionary_cast_nulling_keys(array, to_type, safe) ==
    IF to_type.tag = "Dictionary"
    THEN LET keys_array == PrimitiveArray(array.data_type.key, array.keys)
             cast_keys == cast_with_options(keys_array, to_type.key, safe)
             cast_values == cast_with_options(array.dict, to_type.value, safe)
         IN  IF ~cast_keys.ok THEN cast_keys
             ELSE IF ~cast_values.ok THEN cast_values
             ELSE IF to_type.key.tag \notin IntegerTags
             THEN Err("CastError", "Unsupported type {} for dictionary index", <<to_type.key>>)
             ELSE Ok(DictionaryArray(to_type, cast_keys.array.values, cast_values.array))
    ELSE unpack_dictionary(array, to_type, safe)

dictionary_cast(array, to_type, safe) ==
    IF to_type.tag = "Dictionary"
    THEN LET keys_array == PrimitiveArray(array.data_type.key, array.keys)
             cast_keys == cast_with_options(keys_array, to_type.key, safe)
             cast_values == cast_with_options(array.dict, to_type.value, safe)
         IN  IF ~cast_keys.ok THEN cast_keys
             ELSE IF ~cast_values.ok THEN cast_values
             ELSE IF null_count(cast_keys.array) > null_count(keys_array)
             THEN Err("ComputeError", "Could not convert {} dictionary indexes from {} to {}",
                      <<null_count(cast_keys.array) - null_count(keys_array),
                        keys_array.data_type, to_type.key>>)
             ELSE IF to_type.key.tag \notin IntegerTags
             THEN Err("CastError", "Unsupported type {} for dictionary index", <<to_type.key>>)
             ELSE Ok(DictionaryArray(to_type, cast_keys.array.values, cast_values.array))
    ELSE unpack_dictionary(array, to_type, safe)

\* the slots where a value occurs for the first time, in the order of the array
first_occurrences(values) ==
    {i \in 1..Len(values) :
        IsSome(values[i]) /\ \A j \in 1..(i - 1) : values[j] # values[i]}

\* the data type a PrimitiveBuilder of the type gives its array
builder_data_type(value_type) ==
    IF value_type.tag \in DecimalTags
    THEN decimal_type(value_type.tag, max_precision(value_type.tag), 10)
    ELSE value_type

\* the loop of pack_numeric_to_dictionary and pack_byte_to_dictionary:
\* every distinct value gets the next key
pack_to_dictionary(cast_values, key_tag) ==
    LET values == cast_values.values
        firsts == first_occurrences(values)
        rank(i) == Cardinality({j \in firsts : j < i})
        dict == [k \in 1..Cardinality(firsts) |->
                    values[CHOOSE j \in firsts : rank(j) = k - 1]]
        key(i) == rank(CHOOSE j \in firsts : values[j] = values[i])
    IN  IF Cardinality(firsts) > 0 /\ ~in_range(Cardinality(firsts) - 1, key_tag)
        THEN Err("DictionaryKeyOverflowError", "", <<>>)
        ELSE Ok(DictionaryArray(
                 Dictionary(T(key_tag), builder_data_type(cast_values.data_type)),
                 [i \in 1..Len(values) |-> IF IsSome(values[i]) THEN Some(key(i)) ELSE None],
                 PrimitiveArray(builder_data_type(cast_values.data_type), dict)))

pack_numeric_to_dictionary(array, key_tag, dict_value_type, safe) ==
    LET cast_values == cast_with_options(array, dict_value_type, safe)
    IN  IF cast_values.ok THEN pack_to_dictionary(cast_values.array, key_tag)
        ELSE cast_values

pack_byte_to_dictionary(array, key_tag, dict_value_type, safe) ==
    LET cast_values == cast_with_options(array, dict_value_type, safe)
    IN  IF cast_values.ok THEN pack_to_dictionary(cast_values.array, key_tag)
        ELSE cast_values

cast_to_dictionary(array, key_tag, dict_value_type, safe) ==
    IF dict_value_type.tag \in IntegerTags \cup DecimalTags
    THEN pack_numeric_to_dictionary(array, key_tag, dict_value_type, safe)
    ELSE IF dict_value_type.tag \in {"Utf8", "LargeUtf8", "Binary", "LargeBinary"}
    THEN pack_byte_to_dictionary(array, key_tag, dict_value_type, safe)
    ELSE Err("CastError", "Unsupported output type for dictionary packing: {}",
             <<dict_value_type>>)

\* cast_primitive_to_list without the validity of the cast child
cast_primitive_to_list_all_valid(array, to_type, safe) ==
    LET cast_array == cast_with_options(array, to_type.child, safe)
    IN  IF ~cast_array.ok THEN cast_array
        ELSE Ok(ListArray(to_type, [i \in 1..array_len(array) |-> TRUE],
                          [i \in 1..(array_len(array) + 1) |-> i - 1], cast_array.array))

cast_primitive_to_list(array, to_type, safe) ==
    LET cast_array == cast_with_options(array, to_type.child, safe)
    IN  IF ~cast_array.ok THEN cast_array
        ELSE Ok(ListArray(to_type, validity(cast_array.array),
                          [i \in 1..(array_len(array) + 1) |-> i - 1], cast_array.array))

\* cast_list_inner with the lists that hold a lost element made null
cast_list_inner_nulling_lists(array, to_type, safe) ==
    LET cast_array == cast_with_options(array.child, to_type.child, safe)
        lost(i) == \E k \in (array.offsets[i] + 1)..array.offsets[i + 1] :
                       validity(array.child)[k] /\ ~validity(cast_array.array)[k]
    IN  IF ~cast_array.ok THEN cast_array
        ELSE Ok(ListArray(to_type, [i \in 1..Len(array.nulls) |-> array.nulls[i] /\ ~lost(i)],
                          array.offsets, cast_array.array))

cast_list_inner(array, to_type, safe) ==
    LET cast_array == cast_with_options(array.child, to_type.child, safe)
    IN  IF ~cast_array.ok THEN cast_array
        ELSE Ok(ListArray(to_type, array.nulls, array.offsets, cast_array.array))

\* cast_list_container: the same list under the other offset width
cast_list_container(array) ==
    LET out_dtype == IF array.data_type.tag = "List" THEN LargeList(array.data_type.child)
                     ELSE List(array.data_type.child)
    IN  Ok(ListArray(out_dtype, array.nulls, array.offsets, array.child))

----------------------------------------------------------------------------
(* temporal kernels *)
MILLISECONDS == 1000
MICROSECONDS == 1000000
NANOSECONDS == 1000000000
SECONDS_IN_DAY == 86400
MILLISECONDS_IN_DAY == <<SECONDS_IN_DAY>> \o factors(MILLISECONDS)
MICROSECONDS_IN_DAY == <<SECONDS_IN_DAY>> \o factors(MICROSECONDS)
NANOSECONDS_IN_DAY == <<SECONDS_IN_DAY>> \o factors(NANOSECONDS)

time_unit_multiple(unit) ==
    CASE unit = "Second" -> 1
      [] unit = "Millisecond" -> MILLISECONDS
      [] unit = "Microsecond" -> MICROSECONDS
      [] unit = "Nanosecond" -> NANOSECONDS

\* the value of a slot as a 64-bit number, and a 64-bit number as the value
\* of a slot of an array of data_type
slot_i64(v, data_type) == IF is_wide(data_type) THEN v ELSE as_i64(v)
stored(x, data_type) == IF is_wide(data_type) THEN x ELSE to_int(x)
native_limit(data_type) == IF is_wide(data_type) THEN I64_MAX ELSE I32_MAX
native_words(data_type) == IF is_wide(data_type) THEN 4 ELSE 2

\* An unchecked product that leaves the range of its type panics in a build
\* with overflow checks and wraps in a build without them: the call has the
\* outcome Overflowed, which holds the array of the wrapped products.
Overflowed(wrapped) ==
    [ok |-> FALSE, error |-> "Overflow", text |-> "attempt to multiply with overflow",
     args |-> <<>>, wrapped |-> wrapped]
Panic ==
    [ok |-> FALSE, error |-> "Panic", text |-> "attempt to multiply with overflow",
     args |-> <<>>]

\* unary with the closure |x| x * mul, the product taken in the native
\* integer of to_type
unary_mul(array, to_type, mul) ==
    LET product(v) == wide_mul(slot_i64(v, array.data_type), mul)
        wrapped == PrimitiveArray(to_type,
                       unary_opt(array.values,
                                 LAMBDA v : Some(stored(wrapping(product(v),
                                                                 native_words(to_type)),
                                                        to_type))))
    IN  IF \A i \in 1..Len(array.values) :
               IsSome(array.values[i])
                   => fits(product(Unwrap(array.values[i])), native_limit(to_type))
        THEN Ok(wrapped)
        ELSE Overflowed(wrapped)

\* unary with the closure |x| (x / div) as the native integer of to_type
unary_div(array, to_type, div) ==
    Ok(PrimitiveArray(to_type,
           unary_opt(array.values,
                     LAMBDA v : Some(stored(wrapping(wide_div(slot_i64(v, array.data_type), div),
                                                     native_words(to_type)),
                                            to_type)))))

\* unary_opt with |x| x.checked_mul(mul) under safe, try_unary with
\* |x| x.mul_checked(mul) otherwise, on 64-bit values
i64_mul_checked(x, mul) ==
    IF IsSome(checked_mul(x, mul)) THEN Value(Unwrap(checked_mul(x, mul)))
    ELSE Err("ComputeError", "Overflow happened on: {} * {}", <<x, mul>>)
checked_mul_kernel(array, to_type, mul, safe) ==
    LET f(x) == i64_mul_checked(x, mul)
        r == IF safe THEN unary_opt_ok(array.values, f) ELSE try_unary(array.values, f)
    IN  IF r.ok THEN Ok(PrimitiveArray(to_type, r.array)) ELSE r

\* the arms (Date32, Date64) and (Date64, Date32)
cast_date32_to_date64(array, to_type) == unary_mul(array, to_type, MILLISECONDS_IN_DAY)
cast_date64_to_date32(array, to_type) == unary_div(array, to_type, MILLISECONDS_IN_DAY)

\* the twelve arms between Time32 and Time64 types of different units
cast_time(array, to_type) ==
    LET f == array.data_type.unit
        t == to_type.unit
        mul(m) == unary_mul(array, to_type, factors(m))
        div(d) == unary_div(array, to_type, factors(d))
    IN  CASE f = "Second" /\ t = "Millisecond" -> mul(MILLISECONDS)
          [] f = "Second" /\ t = "Microsecond" -> mul(MICROSECONDS)
          [] f = "Second" /\ t = "Nanosecond" -> mul(NANOSECONDS)
          [] f = "Millisecond" /\ t = "Second" -> div(MILLISECONDS)
          [] f = "Millisecond" /\ t = "Microsecond" -> mul(MICROSECONDS \div MILLISECONDS)
          [] f = "Millisecond" /\ t = "Nanosecond" -> mul(MICROSECONDS \div NANOSECONDS)
          [] f = "Microsecond" /\ t = "Second" -> div(MICROSECONDS)
          [] f = "Microsecond" /\ t = "Millisecond" -> div(MICROSECONDS \div MILLISECONDS)
          [] f = "Microsecond" /\ t = "Nanosecond" -> mul(NANOSECONDS \div MICROSECONDS)
          [] f = "Nanosecond" /\ t = "Second" -> div(NANOSECONDS)
          [] f = "Nanosecond" /\ t = "Millisecond" -> div(NANOSECONDS \div MILLISECONDS)
          [] f = "Nanosecond" /\ t = "Microsecond" -> div(NANOSECONDS \div MICROSECONDS)

\* the arm (Timestamp(from_unit, _), Timestamp(to_unit, to_tz))
cast_timestamp_to_timestamp(array, to_type, safe) ==
    LET from_size == time_unit_multiple(array.data_type.unit)
        to_size == time_unit_multiple(to_type.unit)
    IN  IF from_size > to_size
        THEN unary_div(array, to_type, factors(from_size \div to_size))
        ELSE IF from_size = to_size THEN Ok(PrimitiveArray(to_type, array.values))
        ELSE checked_mul_kernel(array, to_type, factors(to_size \div from_size), safe)

\* the arm (Timestamp(from_unit, _), Date32)
cast_timestamp_to_date32(array, to_type) ==
    unary_div(array, to_type,
              factors(time_unit_multiple(array.data_type.unit)) \o <<SECONDS_IN_DAY>>)

\* the four arms (Timestamp(_, _), Date64)
cast_timestamp_to_date64(array, to_type, safe) ==
    CASE array.data_type.unit = "Second" ->
             checked_mul_kernel(array, to_type, factors(MILLISECONDS), safe)
      [] array.data_type.unit = "Millisecond" -> Ok(PrimitiveArray(to_type, array.values))
      [] array.data_type.unit = "Microsecond" ->
             unary_div(array, to_type, factors(MICROSECONDS \div MILLISECONDS))
      [] array.data_type.unit = "Nanosecond" ->
             unary_div(array, to_type, factors(NANOSECONDS \div MILLISECONDS))

\* the four arms (Date64, Timestamp(_, None))
cast_date64_to_timestamp(array, to_type) ==
    CASE to_type.unit = "Second" -> unary_div(array, to_type, factors(MILLISECONDS))
      [] to_type.unit = "Millisecond" -> Ok(PrimitiveArray(to_type, array.values))
      [] to_type.unit = "Microsecond" ->
             unary_mul(array, to_type, factors(MICROSECONDS \div MILLISECONDS))
      [] to_type.unit = "Nanosecond" ->
             unary_mul(array, to_type, factors(NANOSECONDS \div MILLISECONDS))

\* the four arms (Date32, Timestamp(_, None))
cast_date32_to_timestamp(array, to_type) ==
    CASE to_type.unit = "Second" -> unary_mul(array, to_type, factors(SECONDS_IN_DAY))
      [] to_type.unit = "Millisecond" -> unary_mul(array, to_type, MILLISECONDS_IN_DAY)
      [] to_type.unit = "Microsecond" -> unary_mul(array, to_type, MICROSECONDS_IN_DAY)
      [] to_type.unit = "Nanosecond" -> unary_mul(array, to_type, NANOSECONDS_IN_DAY)

\* The arms (Timestamp(_, tz), Time64(_)) and (Timestamp(_, tz), Time32(_)).
\* The conversions of arrow_array::temporal_conversions and of chrono are
\* taken as the libraries define them: an instant is split into the seconds
\* since 1970 (rounded down) and the nanoseconds of the second, and it has a
\* date-time when the seconds lie in the range of chrono's dates.
CHRONO_MIN_SECONDS == Wide(TRUE, <<8, 334, 632, 851, 200>>)
CHRONO_MAX_SECONDS == Wide(FALSE, <<8, 210, 298, 412, 799>>)
\* the zones written as an offset from UTC, and their offsets in seconds
FixedOffsets == {"+01:00", "+08:00"}
fixed_offset(tz) ==
    CASE tz = "+01:00" -> 3600
      [] tz = "+08:00" -> 28800
      [] OTHER -> 0

\* split_second: the euclidean quotient and remainder of x by the unit
split_second(x, unit) ==
    LET k == CASE unit = "Second" -> 0
               [] unit = "Millisecond" -> 1
               [] unit = "Microsecond" -> 2
               [] unit = "Nanosecond" -> 3
        n == Len(x.groups)
        quotient == IF n > k THEN SubSeq(x.groups, 1, n - k) ELSE <<0>>
        remainder == groups_int(SubSeq(x.groups, IF n > k THEN n - k + 1 ELSE 1, n))
    IN  IF x.neg /\ remainder # 0
        THEN [sec |-> Wide(TRUE, mag_mul_add(quotient, 1, 1)),
              sub |-> time_unit_multiple(unit) - remainder]
        ELSE [sec |-> signed(x.neg, quotient), sub |-> remainder]

\* as_time_res_with_timezone: the time of day of the instant x in the zone,
\* as seconds from midnight and nanoseconds
as_time_res_with_timezone(x, data_type) ==
    LET parts == split_second(x, data_type.unit)
        in_day == mag_mod(parts.sec.groups, SECONDS_IN_DAY)
        utc == IF parts.sec.neg /\ in_day # 0 THEN SECONDS_IN_DAY - in_day ELSE in_day
    IN  IF wide_le(CHRONO_MIN_SECONDS, parts.sec) /\ wide_le(parts.sec, CHRONO_MAX_SECONDS)
        THEN Value([secs |-> (utc + fixed_offset(data_type.tz)) % SECONDS_IN_DAY,
                    nano |-> parts.sub * (NANOSECONDS \div time_unit_multiple(data_type.unit))])
        ELSE Err("CastError", "Failed to create naive time with {} {}", <<data_type.unit, x>>)

\* time_to_time32s, time_to_time32ms, time_to_time64us and time_to_time64ns
time_to_time(time, to_type) ==
    LET secs == as_i64(time.secs).groups
    IN  CASE to_type.unit = "Second" -> time.secs
          [] to_type.unit = "Millisecond" ->
                 time.secs * MILLISECONDS + time.nano \div (NANOSECONDS \div MILLISECONDS)
          [] to_type.unit = "Microsecond" ->
                 Wide(FALSE, mag_mul_add(secs, MICROSECONDS,
                                         time.nano \div (NANOSECONDS \div MICROSECONDS)))
          [] to_type.unit = "Nanosecond" ->
                 Wide(FALSE, mag_mul_add(mag_mul_add(secs, NANOSECONDS \div MICROSECONDS, 0),
                                         MICROSECONDS, time.nano))

\* the arm with unary_opt under safe = true: an instant without a date-time
\* becomes a null slot
cast_timestamp_to_time_nulling(array, to_type, safe) ==
    LET f(x) == LET time == as_time_res_with_timezone(x, array.data_type)
                IN  IF time.ok THEN Value(time_to_time(time.value, to_type)) ELSE time
        r == IF safe THEN unary_opt_ok(array.values, f) ELSE try_unary(array.values, f)
    IN  IF r.ok THEN Ok(PrimitiveArray(to_type, r.array)) ELSE r

\* try_unary with the closure of the arm: the arm does not read the options
\* of the call.  A zone given by its name is covered for null slots only.
cast_timestamp_to_time(array, to_type, safe) ==
    LET f(x) == LET time == as_time_res_with_timezone(x, array.data_type)
                IN  IF time.ok THEN Value(time_to_time(time.value, to_type)) ELSE time
        r == try_unary(array.values, f)
    IN  IF array.data_type.tz \notin {"None"} \cup FixedOffsets
        THEN null_only_kernel(array, to_type)
        ELSE IF r.ok THEN Ok(PrimitiveArray(to_type, r.array)) ELSE r

\* cast_interval_to_duration.  A value of an Interval(MonthDayNano) array is
\* its 128-bit integer, written like the 64-bit values.  `v as i64` keeps the
\* low 64 bits of the quotient.
interval_to_duration_value(x, to_type) ==
    LET scale == CASE to_type.unit = "Second" -> factors(NANOSECONDS)
                   [] to_type.unit = "Millisecond" -> factors(MICROSECONDS)
                   [] to_type.unit = "Microsecond" -> factors(MILLISECONDS)
                   [] to_type.unit = "Nanosecond" -> <<1>>
        v == wide_div(x, scale)
    IN  IF wide_lt(I64_MAX, v)
        THEN Err("ComputeError", "Cannot cast to {}. Overflowing on {}", <<to_type, v>>)
        ELSE Value(wrapping(v, 4))

cast_interval_to_duration(array, to_type, safe) ==
    LET f(x) == interval_to_duration_value(x, to_type)
        r == IF safe THEN unary_opt_ok(array.values, f) ELSE try_unary(array.values, f)
    IN  IF r.ok THEN Ok(PrimitiveArray(to_type, r.array)) ELSE r

----------------------------------------------------------------------------
(* the dispatcher *)
\* the units for which a Time32 and a Time64 array type exists
Time32Units == {"Second", "Millisecond"}
Time64Units == {"Microsecond", "Nanosecond"}

\* the chain with the errors of the first call turned into nulls
cast_via_lenient(array, mid, to_type, safe) ==
    LET r == cast_with_options(array, mid, TRUE)
    IN  IF r.ok THEN cast_with_options(r.array, to_type, safe) ELSE r

\* cast_with_options(&cast_with_options(array, mid)?, to_type)
cast_via(array, mid, to_type, safe) ==
    LET r == cast_with_options(array, mid, safe)
    IN  IF r.ok THEN cast_with_options(r.array, to_type, safe) ELSE r

\* the arms of cast_with_options from "temporal casts" to the final arm
cast_temporal(array, to_type, safe) ==
    LET from_type == array.data_type
        f == from_type.tag
        t == to_type.tag
        time32(x) == x.tag = "Time32" /\ x.unit \in Time32Units
        time64(x) == x.tag = "Time64" /\ x.unit \in Time64Units
    IN  IF f = "Int32" /\ t = "Date32" THEN cast_reinterpret_arrays(array, to_type)
        ELSE IF f = "Int32" /\ t = "Date64" THEN cast_via(array, T("Date32"), to_type, safe)
        ELSE IF f = "Int32" /\ time32(to_type) THEN cast_reinterpret_arrays(array, to_type)
        ELSE IF f = "Date32" /\ t = "Int32" THEN cast_reinterpret_arrays(array, to_type)
        ELSE IF f = "Date32" /\ t = "Int64" THEN cast_via(array, T("Int32"), to_type, safe)
        ELSE IF time32(from_type) /\ t = "Int32" THEN cast_reinterpret_arrays(array, to_type)
        ELSE IF f = "Int64" /\ t = "Date64" THEN cast_reinterpret_arrays(array, to_type)
        ELSE IF f = "Int64" /\ t = "Date32" THEN cast_via(array, T("Int32"), to_type, safe)
        ELSE IF f = "Int64" /\ time64(to_type) THEN cast_reinterpret_arrays(array, to_type)
        ELSE IF f = "Date64" /\ t = "Int64" THEN cast_reinterpret_arrays(array, to_type)
        ELSE IF f = "Date64" /\ t = "Int32" THEN cast_via(array, T("Int64"), to_type, safe)
        ELSE IF time64(from_type) /\ t = "Int64" THEN cast_reinterpret_arrays(array, to_type)
        ELSE IF f = "Date32" /\ t = "Date64" THEN cast_date32_to_date64(array, to_type)
        ELSE IF f = "Date64" /\ t = "Date32" THEN cast_date64_to_date32(array, to_type)
        ELSE IF /\ time32(from_type) \/ time64(from_type)
                /\ time32(to_type) \/ time64(to_type)
                /\ from_type # to_type
            THEN cast_time(array, to_type)
        ELSE IF f = "Timestamp" /\ t = "Int64" THEN cast_reinterpret_arrays(array, to_type)
        ELSE IF f = "Int64" /\ t = "Timestamp" THEN cast_reinterpret_arrays(array, to_type)
        ELSE IF f = "Timestamp" /\ t = "Timestamp"
            THEN cast_timestamp_to_timestamp(array, to_type, safe)
        ELSE IF f = "Timestamp" /\ t = "Date32" THEN cast_timestamp_to_date32(array, to_type)
        ELSE IF f = "Timestamp" /\ t = "Date64"
            THEN cast_timestamp_to_date64(array, to_type, safe)
        ELSE IF f = "Timestamp" /\ (time64(to_type) \/ time32(to_type))
            THEN cast_timestamp_to_time(array, to_type, safe)
        ELSE IF f = "Date64" /\ t = "Timestamp" /\ to_type.tz = "None"
            THEN cast_date64_to_timestamp(array, to_type)
        ELSE IF f = "Date32" /\ t = "Timestamp" /\ to_type.tz = "None"
            THEN cast_date32_to_timestamp(array, to_type)
        ELSE IF f = "Int64" /\ t = "Duration" THEN cast_reinterpret_arrays(array, to_type)
        ELSE IF f = "Duration" /\ t = "Int64" THEN cast_reinterpret_arrays(array, to_type)
        ELSE IF f = "Duration" /\ t = "Interval" /\ to_type.unit = "MonthDayNano"
            THEN null_only_kernel(array, to_type)
        ELSE IF f = "Interval" /\ from_type.unit = "MonthDayNano" /\ t = "Duration"
            THEN cast_interval_to_duration(array, to_type, safe)
        ELSE IF f = "Interval" /\ from_type.unit = "YearMonth" /\ t = "Int64"
            THEN cast_numeric_arrays(array, to_type, safe)
        ELSE IF f = "Interval" /\ from_type.unit = "DayTime" /\ t = "Int64"
            THEN cast_reinterpret_arrays(array, to_type)
        ELSE IF f = "Int32" /\ t = "Interval" /\ to_type.unit = "YearMonth"
            THEN cast_reinterpret_arrays(array, to_type)
        ELSE IF f = "Int64" /\ t = "Interval" /\ to_type.unit = "DayTime"
            THEN cast_reinterpret_arrays(array, to_type)
        ELSE unsupported(from_type, to_type)

\* the arms of cast_with_options from (Struct(_), _) up to the numeric casts
cast_scalar(array, to_type, safe) ==
    LET from_type == array.data_type
        f == from_type.tag
        t == to_type.tag
        BoolPeers == IntegerTags \cup {"Float16", "Float32", "Float64", "Utf8", "LargeUtf8"}
        FromString == NumericTags \cup {"Date32", "Date64", "Binary", "LargeBinary",
                                        "Utf8", "LargeUtf8", "Timestamp", "Interval"}
    IN  IF f = "Struct" THEN Err("CastError", "Cannot cast from struct to other types", <<>>)
        ELSE IF t = "Struct" THEN Err("CastError", "Cannot cast to struct from other types", <<>>)
        ELSE IF t = "Boolean"
            THEN IF f \in BoolPeers THEN null_only_kernel(array, to_type)
                 ELSE unsupported(from_type, to_type)
        ELSE IF f = "Boolean"
            THEN IF t \in BoolPeers THEN null_only_kernel(array, to_type)
                 ELSE unsupported(from_type, to_type)
        ELSE IF f \in StringTags
            THEN IF \/ t \in FromString \ {f}
                    \/ t = "Time32" /\ to_type.unit \in Time32Units
                    \/ t = "Time64" /\ to_type.unit \in Time64Units
                 THEN null_only_kernel(array, to_type)
                 ELSE unsupported(from_type, to_type)
        ELSE IF f \in {"Binary", "LargeBinary"}
            THEN IF t \in {"Utf8", "LargeUtf8", "Binary", "LargeBinary", "FixedSizeBinary"} \ {f}
                 THEN null_only_kernel(array, to_type)
                 ELSE unsupported(from_type, to_type)
        ELSE IF f = "FixedSizeBinary"
            THEN IF t \in {"Binary", "LargeBinary"} THEN null_only_kernel(array, to_type)
                 ELSE unsupported(from_type, to_type)
        ELSE IF t \in StringTags /\ is_primitive(from_type)
            THEN value_to_string(array, to_type)
        ELSE IF f \in NumericTags /\ t \in NumericTags /\ f # t
            THEN cast_numeric_arrays(array, to_type, safe)
        ELSE cast_temporal(array, to_type, safe)

\* the arms of cast_with_options on the decimal types
cast_decimal(array, to_type, safe) ==
    LET from_type == array.data_type
        f == from_type.tag
        t == to_type.tag
    IN  IF f \in DecimalTags /\ f = t
        THEN cast_decimal_to_decimal_same_type(array, from_type.scale, to_type.precision,
                                               to_type.scale, safe)
        ELSE IF f \in DecimalTags /\ t \in DecimalTags
        THEN cast_decimal_to_decimal(array, t, from_type.scale, to_type.precision,
                                     to_type.scale, safe)
        ELSE IF f \in DecimalTags
        THEN IF t \in IntegerTags
             THEN cast_decimal_to_integer(array, to_type, from_type.scale, safe)
             ELSE IF t \in FloatTags THEN null_only_kernel(array, to_type)
             ELSE IF t \in StringTags THEN value_to_string(array, to_type)
             ELSE IF t = "Null" THEN Ok(new_null_array(to_type, array_len(array)))
             ELSE unsupported(from_type, to_type)
        ELSE IF f \in IntegerTags
             THEN cast_integer_to_decimal(array, t, to_type.precision, to_type.scale, safe)
             ELSE IF f \in FloatTags
             THEN cast_floating_point_to_decimal(array, t, to_type.precision,
                                                 to_type.scale, safe)
             ELSE IF f \in StringTags
             THEN cast_string_to_decimal(array, t, to_type.precision, to_type.scale, safe)
             ELSE IF f = "Null" THEN Ok(new_null_array(to_type, array_len(array)))
             ELSE unsupported(from_type, to_type)

\* the patterns of the temporal arms of the match
temporal_arm(from_type, to_type) ==
    LET f == from_type.tag
        t == to_type.tag
        time32(x) == x.tag = "Time32" /\ x.unit \in Time32Units
        time64(x) == x.tag = "Time64" /\ x.unit \in Time64Units
        time(x) == time32(x) \/ time64(x)
    IN  \/ f = "Int32" /\ (t \in {"Date32", "Date64"} \/ time32(to_type))
        \/ f = "Date32" /\ t \in {"Int32", "Int64", "Date64"}
        \/ time32(from_type) /\ t = "Int32"
        \/ f = "Int64" /\ (t \in {"Date64", "Date32", "Timestamp", "Duration"} \/ time64(to_type))
        \/ f = "Date64" /\ t \in {"Int64", "Int32", "Date32"}
        \/ time64(from_type) /\ t = "Int64"
        \/ time(from_type) /\ time(to_type) /\ from_type # to_type
        \/ f = "Timestamp" /\ (t \in {"Int64", "Timestamp", "Date32", "Date64"} \/ time(to_type))
        \/ f \in {"Date64", "Date32"} /\ t = "Timestamp" /\ to_type.tz = "None"
        \/ f = "Duration" /\ t = "Int64"
        \/ f = "Duration" /\ t = "Interval" /\ to_type.unit = "MonthDayNano"
        \/ f = "Interval" /\ from_type.unit = "MonthDayNano" /\ t = "Duration"
        \/ f = "Interval" /\ from_type.unit \in {"YearMonth", "DayTime"} /\ t = "Int64"
        \/ f = "Int32" /\ t = "Interval" /\ to_type.unit = "YearMonth"
        \/ f = "Int64" /\ t = "Interval" /\ to_type.unit = "DayTime"

\* whether the pattern of an arm before the final (_, _) matches the pair
has_arm(from_type, to_type) ==
    LET f == from_type.tag
        t == to_type.tag
    IN  \/ f = "Null" /\ t \in NullTargetTags
        \/ f = "Dictionary" \/ t = "Dictionary"
        \/ f \in {"List", "LargeList"} \/ t \in {"List", "LargeList"}
        \/ f \in DecimalTags \/ t \in DecimalTags
        \/ f = "Struct" \/ t = "Struct"
        \/ f = "Boolean" \/ t = "Boolean"
        \/ f \in {"Utf8", "LargeUtf8", "Binary", "LargeBinary", "FixedSizeBinary"}
        \/ t \in StringTags /\ is_primitive(from_type)
        \/ f \in NumericTags /\ t \in NumericTags /\ f # t
        \/ temporal_arm(from_type, to_type)

\* the match of cast_with_options on (from_type, to_type)
cast_match(array, to_type, safe) ==
    LET from_type == array.data_type
        f == from_type.tag
        t == to_type.tag
    IN  IF holds_wide(array) /\ ~is_wide(to_type) /\ t \notin NarrowTags \cup {"Date32"}
            THEN NotModelled
        ELSE IF f = "Null" /\ t \in NullTargetTags
            THEN Ok(new_null_array(to_type, array_len(array)))
        ELSE IF f = "Dictionary"
            THEN IF from_type.key.tag \in IntegerTags THEN dictionary_cast(array, to_type, safe)
                 ELSE Err("CastError", "Casting from dictionary type {} to {} not supported",
                          <<from_type, to_type>>)
        ELSE IF t = "Dictionary"
            THEN IF to_type.key.tag \in IntegerTags
                 THEN cast_to_dictionary(array, to_type.key.tag, to_type.value, safe)
                 ELSE Err("CastError",
                          "Casting from type {} to dictionary type {} not supported",
                          <<from_type, to_type>>)
        ELSE IF f = t /\ f \in {"List", "LargeList"} THEN cast_list_inner(array, to_type, safe)
        ELSE IF f = "List" /\ t = "LargeList"
            THEN IF to_type.child # from_type.child
                 THEN Err("CastError",
                          "cannot cast list to large-list with different child data", <<>>)
                 ELSE cast_list_container(array)
        ELSE IF f = "LargeList" /\ t = "List"
            THEN IF to_type.child # from_type.child
                 THEN Err("CastError",
                          "cannot cast large-list to list with different child data", <<>>)
                 ELSE cast_list_container(array)
        ELSE IF f \in {"List", "LargeList"}
            THEN IF t \in StringTags THEN null_only_kernel(array, to_type)
                 ELSE Err("CastError", "Cannot cast list to non-list data types", <<>>)
        ELSE IF t \in {"List", "LargeList"} THEN cast_primitive_to_list(array, to_type, safe)
        ELSE IF f \in DecimalTags \/ t \in DecimalTags THEN cast_decimal(array, to_type, safe)
        ELSE cast_scalar(array, to_type, safe)

\* cast_with_options without the clone of an array that has the target type
cast_with_options_no_clone(array, to_type, safe) == cast_match(array, to_type, safe)

\* cast_with_options: a clone when the types are equal, the match otherwise
cast_with_options(array, to_type, safe) ==
    IF array.data_type = to_type THEN Ok(array)
    ELSE cast_match(array, to_type, safe)

----------------------------------------------------------------------------
(* one call of cast_with_options *)
\* the longest array of sampled values, and the longest all-null array
MaxLen == 2
MaxNulls == 1

\* result before the call returns
Pending == [ok |-> FALSE, error |-> "Pending", text |-> "", args |-> <<>>]

\* the types a caller can name as the target of a cast
ScalarTypes ==
    <<T("Null"), T("Boolean"), T("Int8"), T("Int16"), T("Int32"), T("Int64"),
      T("UInt8"), T("UInt16"), T("UInt32"), T("UInt64"), T("Float16"), T("Float32"),
      T("Float64"), T("Date32"), T("Date64"), T("Utf8"), T("LargeUtf8"), T("Binary"),
      T("LargeBinary"), FixedSizeBinary(2),
      Time32("Second"), Time32("Millisecond"), Time64("Microsecond"), Time64("Nanosecond"),
      Timestamp("Second", "None"), Timestamp("Millisecond", "None"),
      Timestamp("Microsecond", "UTC"), Timestamp("Nanosecond", "None"),
      Duration("Second"), Duration("Millisecond"), Duration("Microsecond"),
      Duration("Nanosecond"), Interval("YearMonth"), Interval("DayTime"),
      Interval("MonthDayNano"), Decimal128(10, 2), Decimal128(5, 0), Decimal256(10, 2),
      Struct(<<T("Int32")>>), Map(T("Int32")), FixedSizeList(T("Int32"), 2)>>

NestedTypes ==
    <<List(T("Int32")), List(T("Utf8")), List(FixedSizeBinary(2)), List(T("Float16")),
      LargeList(T("Int32")), LargeList(T("Int64")), LargeList(T("Boolean")),
      List(List(T("Int32"))),
      Dictionary(T("Int8"), T("Int32")), Dictionary(T("Int32"), T("Utf8")),
      Dictionary(T("UInt16"), T("Float64")), Dictionary(T("Int32"), T("Boolean")),
      Dictionary(T("Int64"), Time32("Second")), Dictionary(T("Int8"), List(T("Int32"))),
      Dictionary(T("Int8"), Struct(<<T("Int32")>>)), List(Struct(<<T("Int32")>>)),
      LargeList(Struct(<<T("Int64")>>))>>

\* targets that name a type no array has
UnrealizedTypes ==
    <<Time32("Microsecond"), Time32("Nanosecond"), Time64("Second"), Time64("Millisecond"),
      Dictionary(T("Utf8"), T("Int32")), Dictionary(T("Float64"), T("Utf8")),
      Dictionary(T("Int32"), Time32("Microsecond"))>>

FromTypes == ScalarTypes \o NestedTypes
ToTypes == ScalarTypes \o NestedTypes \o UnrealizedTypes

\* type-level calls: an empty or all-null array of every type, to every target
InitTypes ==
    /\ \E i \in DOMAIN FromTypes, n \in 0..MaxNulls :
           arg_array = new_null_array(FromTypes[i], n)
    /\ \E j \in DOMAIN ToTypes : arg_to_type = ToTypes[j]
    /\ arg_safe \in BOOLEAN
    /\ pc = "start"
    /\ result = Pending
    /\ round_trip = Pending

\* the sequences over S of length at most n
SeqsUpTo(S, n) == UNION {[1..k -> S] : k \in 0..n}
Options(S) == {None} \cup {Some(v) : v \in S}
IntegerTypes == <<T("Int8"), T("Int16"), T("Int32"), T("Int64"),
                  T("UInt8"), T("UInt16"), T("UInt32"), T("UInt64")>>

\* values around the limits of the integer types
NumericSamples == {-32769, -129, -5, 0, 6, 128, 256, 65536, 100000000}
\* the input of test_cast_i32_to_u8 and test_cast_int32_to_u8_with_error
TestInt32Values == <<Some(-5), Some(6), Some(-7), Some(8), Some(100000000)>>

NumericArrays(data_type) ==
    {PrimitiveArray(data_type, vs) :
        vs \in SeqsUpTo(Options({v \in NumericSamples : in_range(v, data_type.tag)}), MaxLen)
               \cup (IF data_type.tag = "Int32" THEN {TestInt32Values} ELSE {})}

\* the targets of the calls on integer arrays: the integer types, a string
\* type, a dictionary, a list, and targets no integer type is cast to
NumericTargets ==
    IntegerTypes \o
    <<T("Utf8"), Dictionary(T("Int8"), T("Int16")), List(T("UInt8")),
      Timestamp("Microsecond", "None"), T("Float16"), T("Binary"), Map(T("Int32"))>>

\* calls on integer arrays
InitNumeric ==
    /\ \E i \in DOMAIN IntegerTypes : arg_array \in NumericArrays(IntegerTypes[i])
    /\ \E j \in DOMAIN NumericTargets : arg_to_type = NumericTargets[j]
    /\ arg_safe \in BOOLEAN
    /\ pc = "start"
    /\ result = Pending
    /\ round_trip = Pending

\* decimal values around the rounding and overflow cases, with the inputs of
\* test_cast_decimal_to_decimal_round
DecimalSamples == {0, 5, -15, 1234, 1123454, 2123456, -3123453, -3123456, 100000000}
DecimalFromTypes ==
    <<Decimal128(20, 4), Decimal128(10, 0), Decimal128(10, -1),
      Decimal256(20, 4), Decimal256(10, 0)>>
DecimalToTypes ==
    <<Decimal128(20, 3), Decimal128(20, 4), Decimal128(2, 2), Decimal128(2, 0),
      Decimal128(10, -2), Decimal128(20, 6), Decimal128(20, 8), Decimal128(1, 2),
      Decimal256(20, 3), Decimal256(20, 4), Decimal256(10, -2), Decimal256(20, 6),
      Decimal256(3, 0)>>

DecimalArrays(data_type) ==
    {PrimitiveArray(data_type, vs) :
        vs \in SeqsUpTo(Options({v \in DecimalSamples : fits_native(v, data_type.tag)}),
                        MaxLen)}

\* calls on decimal arrays with decimal targets
InitDecimal ==
    /\ \E i \in DOMAIN DecimalFromTypes : arg_array \in DecimalArrays(DecimalFromTypes[i])
    /\ \E j \in DOMAIN DecimalToTypes : arg_to_type = DecimalToTypes[j]
    /\ arg_safe \in BOOLEAN
    /\ pc = "start"
    /\ result = Pending
    /\ round_trip = Pending

\* the number of values of test_cast_dict_to_dict_bad_index_value_primitive
TEST_DICT_LEN == 200
\* its dictionary values 0..199, and the keys 0..199 that name them in order
TestDictValues == [i \in 1..TEST_DICT_LEN |-> Some(i - 1)]
KeySamples == {0, 1, 127, 128, 199}
DictKeyTypes == <<T("Int8"), T("Int16"), T("Int32"), T("UInt8")>>
DictValueTypes == <<T("Int64"), T("Int32")>>

DictionaryArrays(key_type, value_type) ==
    {DictionaryArray(Dictionary(key_type, value_type), ks,
                     PrimitiveArray(value_type, TestDictValues)) :
        ks \in SeqsUpTo(Options({k \in KeySamples : in_range(k, key_type.tag)}), MaxLen)
               \cup (IF key_type.tag = "Int32" THEN {TestDictValues} ELSE {})}

DictTargets ==
    <<Dictionary(T("Int8"), T("Int64")), Dictionary(T("Int8"), T("Utf8")),
      Dictionary(T("UInt8"), T("Int32")), Dictionary(T("Int16"), T("Int8")),
      Dictionary(T("Int32"), T("Int64")), Dictionary(T("UInt64"), T("Int32")),
      Dictionary(T("Int8"), T("Float16")), Dictionary(T("Utf8"), T("Int32")),
      T("Int64"), T("Int32"), T("UInt8"), T("Int8"), T("Utf8"), T("Float16")>>

\* calls on dictionary arrays
InitDict ==
    /\ \E i \in DOMAIN DictKeyTypes, v \in DOMAIN DictValueTypes :
           arg_array \in DictionaryArrays(DictKeyTypes[i], DictValueTypes[v])
    /\ \E j \in DOMAIN DictTargets : arg_to_type = DictTargets[j]
    /\ arg_safe \in BOOLEAN
    /\ pc = "start"
    /\ result = Pending
    /\ round_trip = Pending

\* integer values for the casts to decimals, with the inputs of
\* test_cast_numeric_to_decimal128_precision_overflow and
\* test_cast_numeric_to_decimal128_negative
IntegerDecimalSamples == {0, -5, 6, 99, -128, 1234, 1123456, 1234567}
IntegerDecimalFromTypes == <<T("Int8"), T("Int32"), T("Int64"), T("UInt16"), T("UInt64")>>
IntegerDecimalTargets ==
    <<Decimal128(4, 3), Decimal128(7, 0), Decimal128(38, -1), Decimal128(3, -2),
      Decimal128(2, 1), Decimal128(38, 7), Decimal128(1, 2),
      Decimal256(7, 2), Decimal256(7, 3), Decimal256(76, 0), Decimal256(5, -3)>>

\* calls on integer arrays with decimal targets
InitIntegerDecimal ==
    /\ \E i \in DOMAIN IntegerDecimalFromTypes :
           arg_array \in
               {PrimitiveArray(IntegerDecimalFromTypes[i], vs) :
                   vs \in SeqsUpTo(Options({v \in IntegerDecimalSamples :
                                               in_range(v, IntegerDecimalFromTypes[i].tag)}),
                                   MaxLen)}
    /\ \E j \in DOMAIN IntegerDecimalTargets : arg_to_type = IntegerDecimalTargets[j]
    /\ arg_safe \in BOOLEAN
    /\ pc = "start"
    /\ result = Pending
    /\ round_trip = Pending

\* decimal values for the casts to integers, with the inputs of
\* test_cast_decimal_to_numeric
DecimalIntegerSamples == {0, 125, 525, -199, 513, 51300, 24400, -12900, 70000, 100000000}
DecimalIntegerFromTypes ==
    <<Decimal128(38, 2), Decimal128(10, 0), Decimal128(10, -1), Decimal128(38, 7),
      Decimal256(76, 2), Decimal256(10, 0), Decimal256(10, -2)>>

\* calls on decimal arrays with integer targets
InitDecimalInteger ==
    /\ \E i \in DOMAIN DecimalIntegerFromTypes :
           arg_array \in
               {PrimitiveArray(DecimalIntegerFromTypes[i], vs) :
                   vs \in SeqsUpTo(Options({v \in DecimalIntegerSamples :
                                               fits_native(v, DecimalIntegerFromTypes[i].tag)}),
                                   MaxLen)}
    /\ \E j \in DOMAIN IntegerTypes : arg_to_type = IntegerTypes[j]
    /\ arg_safe \in BOOLEAN
    /\ pc = "start"
    /\ result = Pending
    /\ round_trip = Pending

\* floating-point values in quarters: 0, 0.25, 0.5, -0.5, 1.5, 2.5, 123.5,
\* -123.5, 1234.0 and 100000.0
FloatQuarterSamples == {0, 1, 2, -2, 6, 10, 494, -494, 4936, 400000}
FloatTypes == <<T("Float32"), T("Float64")>>
FloatDecimalTargets ==
    <<Decimal128(2, 2), Decimal128(3, 0), Decimal128(10, 2), Decimal128(38, 3),
      Decimal128(1, 2), Decimal256(2, 1), Decimal256(20, 0), Decimal256(76, 3)>>

\* calls on floating-point arrays with decimal targets
InitFloatDecimal ==
    /\ \E i \in DOMAIN FloatTypes :
           arg_array \in {PrimitiveArray(FloatTypes[i], vs) :
                             vs \in SeqsUpTo(Options(FloatQuarterSamples), MaxLen)}
    /\ \E j \in DOMAIN FloatDecimalTargets : arg_to_type = FloatDecimalTargets[j]
    /\ arg_safe \in BOOLEAN
    /\ pc = "start"
    /\ result = Pending
    /\ round_trip = Pending

\* numerals and other strings, with inputs of test_parse_string_to_decimal,
\* test_cast_utf8_to_decimal and test_cast_invalid_utf8_to_decimal
StringSamples ==
    {<<"1", "2", "3", ".", "4", "5">>, <<"1", ".", "2", "3", "4", "5">>,
     <<"0", ".", "1", "2", "3", "4", "5">>, <<".", "1", "2", "6", "5">>,
     <<"1", ".", "2", "6", "5">>, <<"1", "2", "3", "4", "5">>, <<"0", "0", "0", ".", "1", "2", "3">>,
     <<"0", ".", "9", "9", "5">>, <<"7", ".", "5">>, <<"7", ".">>, <<"7">>,
     <<"0">>, <<"0", ".">>, <<"0", ".", "0">>, <<".">>, <<>>, <<" ">>, <<" ", "4", "2", " ">>,
     <<"4", ".", "4", ".", "5">>, <<".", " ", "0", ".", "1", "2", "3">>,
     <<"-", "1", ".", "5">>, <<"-", "0", ".", "0", "5">>, <<"-", "1", ".", "2", "6", "5">>,
     <<"-", "7">>, <<"1", "a">>}
\* the strings that follow the first one of an array
StringFollowers == {<<"1", ".", "2", "6", "5">>, <<"7">>, <<"1", "a">>}
\* the empty array, and a null or any string followed by nulls and followers
StringSeqs ==
    {<<>>} \cup {<<a>> \o rest : a \in Options(StringSamples),
                                 rest \in SeqsUpTo(Options(StringFollowers), MaxLen - 1)}
StringTypes == <<T("Utf8"), T("LargeUtf8")>>
StringDecimalTargets ==
    <<Decimal128(38, 2), Decimal128(38, 0), Decimal128(5, 3), Decimal128(38, -1),
      Decimal128(38, 39), Decimal256(76, 3), Decimal256(76, 0), Decimal256(76, -2),
      Decimal256(76, 77)>>

\* calls on string arrays with decimal targets
InitStringDecimal ==
    /\ \E i \in DOMAIN StringTypes :
           arg_array \in {PrimitiveArray(StringTypes[i], vs) : vs \in StringSeqs}
    /\ \E j \in DOMAIN StringDecimalTargets : arg_to_type = StringDecimalTargets[j]
    /\ arg_safe \in BOOLEAN
    /\ pc = "start"
    /\ result = Pending
    /\ round_trip = Pending

\* decimal values for the casts to strings, with the inputs of
\* test_cast_decimal_to_utf8
DecimalStringSamples == {0, 5, -5, 123, -99, 1123454, -3123453, 123456789}
DecimalStringFromTypes ==
    <<Decimal128(7, 3), Decimal128(7, 0), Decimal128(2, 2), Decimal128(7, -2),
      Decimal256(7, 3), Decimal256(9, 0), Decimal256(10, 1)>>

\* calls on decimal arrays with string targets
InitDecimalString ==
    /\ \E i \in DOMAIN DecimalStringFromTypes :
           arg_array \in
               {PrimitiveArray(DecimalStringFromTypes[i], vs) :
                   vs \in SeqsUpTo(Options({v \in DecimalStringSamples :
                                               fits_native(v, DecimalStringFromTypes[i].tag)}),
                                   MaxLen)}
    /\ \E j \in DOMAIN StringTypes : arg_to_type = StringTypes[j]
    /\ arg_safe \in BOOLEAN
    /\ pc = "start"
    /\ result = Pending
    /\ round_trip = Pending

\* temporal values: the inputs of test_cast_date32_to_date64,
\* test_cast_date64_to_date32 and test_cast_timestamp_to_date32, instants
\* before 1970 and late in a day, and values around the limits of i32 and i64
TemporalSamples(data_type) ==
    CASE data_type.tag = "Date32" -> {0, -3, 10000, 106752}
      [] data_type.tag = "Date64" ->
             {Wide(FALSE, <<864, 0, 0, 5>>), Wide(TRUE, <<1>>), Wide(FALSE, <<86, 400, 0>>),
              Wide(FALSE, <<185, 542, 587, 187, 200, 0>>), I64_MAX}
      [] data_type.tag = "Time32" -> {0, 5, 1500, 86399, 2147484}
      [] data_type.tag = "Time64" ->
             {Wide(FALSE, <<1>>), Wide(FALSE, <<1, 500, 0>>), Wide(FALSE, <<86, 399, 999, 999>>),
              Wide(FALSE, <<9, 223, 372, 36, 854, 776>>), I64_MAX}
      [] data_type.tag = "Timestamp" ->
             {Wide(FALSE, <<864, 0, 0, 5>>), Wide(TRUE, <<1>>), Wide(FALSE, <<57, 600>>),
              Wide(FALSE, <<864, 0, 5>>), I64_MAX}
TemporalTypes ==
    <<T("Date32"), T("Date64"), Time32("Second"), Time32("Millisecond"),
      Time64("Microsecond"), Time64("Nanosecond"),
      Timestamp("Second", "None"), Timestamp("Second", "+08:00"),
      Timestamp("Millisecond", "None"), Timestamp("Microsecond", "None"),
      Timestamp("Nanosecond", "None")>>
TemporalArrays(data_type) ==
    {PrimitiveArray(data_type, vs) : vs \in SeqsUpTo(Options(TemporalSamples(data_type)), MaxLen)}

\* calls on temporal arrays with a temporal target; the casts of a timestamp
\* to a time of day are left out
InitTemporal ==
    /\ \E i \in DOMAIN TemporalTypes : arg_array \in TemporalArrays(TemporalTypes[i])
    /\ \E j \in DOMAIN TemporalTypes : arg_to_type = TemporalTypes[j]
    /\ ~(arg_array.data_type.tag = "Timestamp" /\ arg_to_type.tag \in {"Time32", "Time64"})
    /\ arg_safe \in BOOLEAN
    /\ pc = "start"
    /\ result = Pending
    /\ round_trip = Pending

\* the child values of the lists, and the input of
\* test_cast_list_i32_to_list_u16: [[0, 0, 0], [-1, -2, -1], [2, 100000000]]
ListChildSamples == {0, -1, 65536}
TestListArray ==
    ListArray(List(T("Int32")), <<TRUE, TRUE, TRUE>>, <<0, 3, 6, 8>>,
              PrimitiveArray(T("Int32"), <<Some(0), Some(0), Some(0), Some(-1), Some(-2),
                                           Some(-1), Some(2), Some(100000000)>>))
\* the offsets of n lists over a child of m elements
ListOffsets(n, m) ==
    {o \in [1..(n + 1) -> 0..m] : o[1] = 0 /\ \A i \in 1..n : o[i] <= o[i + 1]}
ListFromTypes == <<List(T("Int32")), LargeList(T("Int32")), List(T("Int64"))>>
ListArrays(list_type) ==
    UNION {{ListArray(list_type, nulls, offsets, PrimitiveArray(list_type.child, vs)) :
               nulls \in [1..n -> BOOLEAN], offsets \in ListOffsets(n, Len(vs))} :
           n \in 0..MaxNulls, vs \in SeqsUpTo(Options(ListChildSamples), MaxLen)}
    \cup (IF list_type = List(T("Int32")) THEN {TestListArray} ELSE {})
ListTargets ==
    <<List(T("UInt16")), LargeList(T("UInt16")), List(T("Int8")), LargeList(T("Int64")),
      List(T("Int32")), LargeList(T("Int32")), List(List(T("Int32"))), List(T("Utf8")),
      List(Decimal128(5, 0)), T("Int32"), T("Utf8")>>

\* calls on list arrays
InitList ==
    /\ \E i \in DOMAIN ListFromTypes : arg_array \in ListArrays(ListFromTypes[i])
    /\ \E j \in DOMAIN ListTargets : arg_to_type = ListTargets[j]
    /\ arg_safe \in BOOLEAN
    /\ pc = "start"
    /\ result = Pending
    /\ round_trip = Pending

\* the arrays that are cast to lists: integer arrays, arrays of the Null
\* type and dictionaries
ToListArrays ==
    NumericArrays(T("Int32")) \cup NumericArrays(T("Int8"))
    \cup {new_null_array(T("Null"), n) : n \in 0..MaxNulls}
    \cup DictionaryArrays(T("Int8"), T("Int32"))
ToListTargets ==
    <<List(T("Int32")), List(T("UInt8")), LargeList(T("Int16")), LargeList(T("Utf8")),
      List(List(T("Int64")))>>

\* calls on arrays that are not lists with a list as the target
InitToList ==
    /\ arg_array \in ToListArrays
    /\ \E j \in DOMAIN ToListTargets : arg_to_type = ToListTargets[j]
    /\ arg_safe \in BOOLEAN
    /\ pc = "start"
    /\ result = Pending
    /\ round_trip = Pending

\* instants for the casts to a time of day: the inputs of
\* test_cast_timestamp_to_time64 and test_cast_timestamp_to_time32, an instant
\* before 1970 and i64::MAX
TimestampTimeSamples ==
    {Wide(FALSE, <<86, 405>>), Wide(FALSE, <<1>>), Wide(FALSE, <<86, 405, 0>>),
     Wide(TRUE, <<1>>), I64_MAX}
TimestampTimeFromTypes ==
    <<Timestamp("Second", "+01:00"), Timestamp("Second", "None"),
      Timestamp("Millisecond", "+01:00"), Timestamp("Microsecond", "None"),
      Timestamp("Nanosecond", "+08:00")>>
TimeTypes ==
    <<Time32("Second"), Time32("Millisecond"), Time64("Microsecond"), Time64("Nanosecond")>>

\* calls on timestamp arrays with a time of day as the target
InitTimestampTime ==
    /\ \E i \in DOMAIN TimestampTimeFromTypes :
           arg_array \in {PrimitiveArray(TimestampTimeFromTypes[i], vs) :
                             vs \in SeqsUpTo(Options(TimestampTimeSamples), MaxLen)}
    /\ \E j \in DOMAIN TimeTypes : arg_to_type = TimeTypes[j]
    /\ arg_safe \in BOOLEAN
    /\ pc = "start"
    /\ result = Pending
    /\ round_trip = Pending

\* 128-bit interval values: the input 1234567 of
\* test_cast_from_interval_to_duration and its i128::MAX, i64::MAX and the
\* number after it, -1, i64::MIN and the number before it, and -2^96, the
\* interval of minus one month
I128_MAX == Wide(FALSE, <<170, 141, 183, 460, 469, 231, 731, 687, 303, 715, 884, 105, 727>>)
IntervalSamples ==
    {Wide(FALSE, <<1, 234, 567>>), I128_MAX, I64_MAX,
     Wide(FALSE, <<9, 223, 372, 36, 854, 775, 808>>), Wide(TRUE, <<1>>),
     Wide(TRUE, <<9, 223, 372, 36, 854, 775, 808>>),
     Wide(TRUE, <<9, 223, 372, 36, 854, 775, 809>>),
     Wide(TRUE, <<79, 228, 162, 514, 264, 337, 593, 543, 950, 336>>)}
DurationTypes ==
    <<Duration("Second"), Duration("Millisecond"), Duration("Microsecond"),
      Duration("Nanosecond")>>

\* the integers and dates of the composite casts: the inputs of
\* test_cast_from_int64 and values around the limits of i32
CompositeSamples(data_type) ==
    CASE data_type.tag \in {"Int32", "Date32"} -> {0, 10000, -3, 2147483647}
      [] data_type.tag \in {"Int64", "Date64"} ->
             {Wide(FALSE, <<0>>), Wide(FALSE, <<10, 0>>), Wide(TRUE, <<3>>),
              Wide(FALSE, <<2, 147, 483, 648>>), Wide(TRUE, <<2, 147, 483, 649>>), I64_MAX}
CompositeTypes == <<T("Int32"), T("Int64"), T("Date32"), T("Date64")>>
CompositeArrays(data_type) ==
    {IF data_type.tag = "Int64" THEN Int64Array(vs) ELSE PrimitiveArray(data_type, vs) :
        vs \in SeqsUpTo(Options(CompositeSamples(data_type)), MaxLen)}

\* calls between the 32- and 64-bit integers and dates
InitComposite ==
    /\ \E i \in DOMAIN CompositeTypes : arg_array \in CompositeArrays(CompositeTypes[i])
    /\ \E j \in DOMAIN CompositeTypes : arg_to_type = CompositeTypes[j]
    /\ arg_safe \in BOOLEAN
    /\ pc = "start"
    /\ result = Pending
    /\ round_trip = Pending

\* calls on Interval(MonthDayNano) arrays with a duration as the target
InitIntervalDuration ==
    /\ arg_array \in {PrimitiveArray(Interval("MonthDayNano"), vs) :
                         vs \in SeqsUpTo(Options(IntervalSamples), MaxLen)}
    /\ \E j \in DOMAIN DurationTypes : arg_to_type = DurationTypes[j]
    /\ arg_safe \in BOOLEAN
    /\ pc = "start"
    /\ result = Pending
    /\ round_trip = Pending

\* the calls of every kind; the calls on list arrays, of timestamps to times
\* of day and of intervals to durations have specifications of their own
Init ==
    \/ InitTypes \/ InitNumeric \/ InitDecimal \/ InitDict
    \/ InitIntegerDecimal \/ InitDecimalInteger \/ InitFloatDecimal
    \/ InitStringDecimal \/ InitDecimalString \/ InitTemporal
    \/ InitToList \/ InitComposite

\* what a call that reached an unchecked product does in a build with or
\* without overflow checks; how a call that wrapped a product inside a nested
\* call goes on is not covered
built(r, to_type, overflow_checks) ==
    IF r.ok \/ r.error # "Overflow" THEN r
    ELSE IF overflow_checks THEN Panic
    ELSE IF r.wrapped.data_type = to_type THEN Ok(r.wrapped)
    ELSE NotModelled

\* the call: cast_with_options(array, to_type, cast_options)
Cast ==
    /\ pc = "start"
    /\ \E overflow_checks \in BOOLEAN :
           result' = built(cast_with_options(arg_array, arg_to_type, arg_safe),
                           arg_to_type, overflow_checks)
    /\ pc' = "done"
    /\ UNCHANGED <<arg_array, arg_to_type, arg_safe, round_trip>>

\* a second call, on the array the first one returned, with the type of the
\* first argument as its target
CastBack ==
    /\ pc = "done"
    /\ result.ok
    /\ \E overflow_checks \in BOOLEAN :
           round_trip' = built(cast_with_options(result.array, arg_array.data_type, arg_safe),
                               arg_array.data_type, overflow_checks)
    /\ pc' = "back"
    /\ UNCHANGED <<arg_array, arg_to_type, arg_safe, result>>

Next == Cast \/ CastBack

SpecTypes == InitTypes /\ [][Next]_vars
SpecNumeric == InitNumeric /\ [][Next]_vars
SpecDecimal == InitDecimal /\ [][Next]_vars
SpecDict == InitDict /\ [][Next]_vars
SpecIntegerDecimal == InitIntegerDecimal /\ [][Next]_vars
SpecDecimalInteger == InitDecimalInteger /\ [][Next]_vars
SpecFloatDecimal == InitFloatDecimal /\ [][Next]_vars
SpecStringDecimal == InitStringDecimal /\ [][Next]_vars
SpecDecimalString == InitDecimalString /\ [][Next]_vars
SpecTemporal == InitTemporal /\ [][Next]_vars
SpecList == InitList /\ [][Next]_vars
SpecToList == InitToList /\ [][Next]_vars
SpecTimestampTime == InitTimestampTime /\ [][Next]_vars
SpecIntervalDuration == InitIntervalDuration /\ [][Next]_vars
SpecComposite == InitComposite /\ [][Next]_vars
Spec == Init /\ [][Next]_vars

\* the call returned
Done == pc = "done"
\* the second call returned
Back == pc = "back"
\* every kernel the calls of a specification reach is one the model covers
Modelled == result.ok \/ result.error # "NotModelled"

----------------------------------------------------------------------------
(* the predicate and the dispatcher *)
\* the call failed with an error of the kind the unsupported pairs get
CastErrorReturned == Done /\ ~result.ok /\ result.error = "CastError"

\* C1: can_cast_types(from, to) is true exactly when the cast of an array of
\* type from to the target does not fail with an unsupported-pair error; the
\* arrays of InitTypes hold no value, so an error there depends on the two
\* types only.
C1_LockStep ==
    Done => (can_cast_types(arg_array.data_type, arg_to_type) <=> ~CastErrorReturned)

\* C7: a Null array of length n cast to any target succeeds, in both safety
\* modes, with an array of the target type and n slots, all of them null.
C7_NullToAnything ==
    Done /\ arg_array.data_type = T("Null")
        => /\ result.ok
           /\ result.array.data_type = arg_to_type
           /\ array_len(result.array) = array_len(arg_array)
           /\ null_count(result.array) = array_len(arg_array)

\* C9: a pair that no arm before the final one matches gets the error
\* "Casting from {from} to {to} not supported", whatever the safety mode and
\* the content of the array, and never an array.
C9_UnmatchedPairUnsupported ==
    Done /\ arg_array.data_type # arg_to_type
         /\ ~has_arm(arg_array.data_type, arg_to_type)
        => /\ ~result.ok
           /\ result.error = "CastError"
           /\ result.text = "Casting from {} to {} not supported"
           /\ result.args = <<arg_array.data_type, arg_to_type>>

\* the pair of test_cast_int32_to_timestamp, on values, under safe = true
C9_Witness ==
    /\ Done /\ arg_safe
    /\ arg_array = PrimitiveArray(T("Int32"), <<Some(6), None>>)
    /\ arg_to_type = Timestamp("Microsecond", "None")
    /\ ~has_arm(arg_array.data_type, arg_to_type)
    /\ ~result.ok

----------------------------------------------------------------------------
(* integer casts *)
RECURSIVE Pow2(_)
Pow2(n) == IF n = 0 THEN 1 ELSE 2 * Pow2(n - 1)
IntegerBits(tag) ==
    CASE tag \in {"Int8", "UInt8"} -> 8
      [] tag \in {"Int16", "UInt16"} -> 16
      [] tag \in {"Int32", "UInt32"} -> 32
      [] tag \in {"Int64", "UInt64"} -> 64
\* whether the integer type holds v; the integers of the model all lie within
\* 32 signed bits
Representable(v, tag) ==
    IF tag \in SignedTags
    THEN IntegerBits(tag) >= 32
         \/ (-Pow2(IntegerBits(tag) - 1) <= v /\ v < Pow2(IntegerBits(tag) - 1))
    ELSE v >= 0 /\ (IntegerBits(tag) >= 32 \/ v < Pow2(IntegerBits(tag)))
\* the slots of the argument whose value the target type does not hold
Unrepresentable ==
    {i \in 1..Len(arg_array.values) :
        IsSome(arg_array.values[i])
        /\ ~Representable(Unwrap(arg_array.values[i]), arg_to_type.tag)}
IntegerCall ==
    Done /\ arg_array.data_type.tag \in IntegerTags /\ arg_to_type.tag \in IntegerTags

\* C3: with safe = false an integer cast of an array with a non-null value
\* the target does not hold returns an error and no array; the error names
\* the value at the lowest such index and the target type.
C3_UnsafeErrorNamesFirstValue ==
    IntegerCall /\ ~arg_safe /\ Unrepresentable # {}
        => /\ ~result.ok
           /\ \E i \in Unrepresentable :
                 /\ \A j \in Unrepresentable : i <= j
                 /\ result = Err("CastError", "Can't cast value {} to type {}",
                                 <<Unwrap(arg_array.values[i]), arg_to_type>>)
           /\ arg_array.values = TestInt32Values /\ arg_to_type = T("UInt8")
                 => result.args = <<-5, T("UInt8")>>

\* the call of test_cast_int32_to_u8_with_error returned
C3_Witness ==
    /\ IntegerCall /\ ~arg_safe /\ ~result.ok
    /\ arg_array = PrimitiveArray(T("Int32"), TestInt32Values)
    /\ arg_to_type = T("UInt8")

\* C8: casting an array to its own type succeeds, in both safety modes, with
\* an array of the same type, length, null slots and values.
C8_IdentityCast ==
    Done /\ arg_to_type = arg_array.data_type
        => /\ result.ok
           /\ result.array.data_type = arg_array.data_type
           /\ array_len(result.array) = array_len(arg_array)
           /\ validity(result.array) = validity(arg_array)
           /\ result.array = arg_array

\* an integer array with null and non-null slots was cast to its own type
C8_Witness ==
    /\ Done /\ result.ok
    /\ arg_array = PrimitiveArray(T("Int32"), <<Some(6), None>>)
    /\ arg_to_type = T("Int32")

\* C10: with safe = true an integer cast gives, slot by slot, null where the
\* input is null or its value is outside the target's range and the equal
\* value otherwise, in an array of the input's length.
C10_SafeIntegerCast ==
    IntegerCall /\ arg_safe
        => /\ result.ok
           /\ result.array.data_type = arg_to_type
           /\ Len(result.array.values) = Len(arg_array.values)
           /\ \A i \in 1..Len(arg_array.values) :
                 result.array.values[i] =
                     IF i \in Unrepresentable THEN None ELSE arg_array.values[i]
           /\ arg_array.values = TestInt32Values /\ arg_to_type = T("UInt8")
                 => result.array.values = <<None, Some(6), None, Some(8), None>>

\* the call of test_cast_i32_to_u8 returned
C10_Witness ==
    /\ IntegerCall /\ arg_safe /\ result.ok
    /\ arg_array = PrimitiveArray(T("Int32"), TestInt32Values)
    /\ arg_to_type = T("UInt8")

----------------------------------------------------------------------------
(* decimal to decimal *)
RECURSIVE Pow10(_)
Pow10(n) == IF n = 0 THEN 1 ELSE 10 * Pow10(n - 1)
Abs(v) == IF v < 0 THEN -v ELSE v
\* v divided by d and rounded to the nearest integer, halves away from zero
HalfAway(v, d) ==
    IF v >= 0 THEN (v + d \div 2) \div d ELSE -((-v + d \div 2) \div d)
\* whether |v| < 10^p; the integers of the model are all below 10^10
FitsPrecision(v, p) == p >= 10 \/ Abs(v) < Pow10(p)

DecimalCall ==
    Done /\ arg_array.data_type.tag \in DecimalTags /\ arg_to_type.tag \in DecimalTags
\* s1 - s2
ScaleDown == arg_array.data_type.scale - arg_to_type.scale
\* the native integer in which the power of ten of the rescaling is computed
PowerTag == IF ScaleDown > 0 THEN arg_array.data_type.tag ELSE arg_to_type.tag
PowerFits == Pow10(Abs(ScaleDown)) <= native_max(PowerTag)
\* precision and scale of the target are those of a decimal type
ValidTarget ==
    /\ 1 <= arg_to_type.precision
    /\ arg_to_type.precision <= max_precision(arg_to_type.tag)
    /\ arg_to_type.scale <= arg_to_type.precision
\* v * m lies within the native integer of the target
ProductFits(v, m) ==
    /\ v <= native_max(arg_to_type.tag) \div m
    /\ -v <= (native_max(arg_to_type.tag) + 1) \div m
\* the rescaled value of v is outside the native integer of the target
Overflows(v) ==
    IF ScaleDown > 0
    THEN ~fits_native(HalfAway(v, Pow10(ScaleDown)), arg_to_type.tag)
    ELSE IF ScaleDown = 0 /\ arg_array.data_type.tag = arg_to_type.tag THEN FALSE
    ELSE ~ProductFits(v, Pow10(-ScaleDown))
\* the rescaled value of v, where it does not overflow
Rescaled(v) ==
    IF ScaleDown > 0 THEN HalfAway(v, Pow10(ScaleDown)) ELSE v * Pow10(-ScaleDown)
\* the slot the rescaling gives for an input slot under safe = true
RescaledSlot(o) == IF IsSome(o) /\ ~Overflows(Unwrap(o)) THEN Some(Rescaled(Unwrap(o))) ELSE None
SomeOverflow ==
    \E i \in 1..Len(arg_array.values) :
        IsSome(arg_array.values[i]) /\ Overflows(Unwrap(arg_array.values[i]))

C5_RoundHalfAwayFromZero ==
    DecimalCall /\ ScaleDown > 0 /\ result.ok
        => \A i \in 1..Len(arg_array.values) :
              IsSome(arg_array.values[i]) =>
                  LET v == Unwrap(arg_array.values[i])
                      d == Pow10(ScaleDown)
                      q == IF v >= 0 THEN v \div d ELSE -((-v) \div d)
                      r == v - q * d
                      w == IF r >= d \div 2 THEN q + 1
                           ELSE IF r <= -(d \div 2) THEN q - 1 ELSE q
                  IN  /\ w = HalfAway(v, d)
                      /\ \/ result.array.values[i] = Some(w)
                         \/ /\ result.array.values[i] = None
                            /\ ~fits_native(w, arg_to_type.tag)
                      /\ ScaleDown = 1 /\ v = 1123454 => result.array.values[i] = Some(112345)
                      /\ ScaleDown = 1 /\ v = 2123456 => result.array.values[i] = Some(212346)
                      /\ ScaleDown = 1 /\ v = -3123453 => result.array.values[i] = Some(-312345)
                      /\ ScaleDown = 1 /\ v = -3123456 => result.array.values[i] = Some(-312346)

\* values of test_cast_decimal_to_decimal_round were cast from a Decimal256
\* to a Decimal128 of a smaller, negative scale
C5_Witness ==
    /\ DecimalCall /\ result.ok
    /\ arg_array = PrimitiveArray(Decimal256(10, 0), <<Some(-3123456), Some(1123454)>>)
    /\ arg_to_type = Decimal128(10, -2)
    /\ result.array.values = <<Some(-31235), Some(11235)>>

----------------------------------------------------------------------------
(* dictionaries *)
DictCall ==
    /\ Done
    /\ arg_array.data_type.tag = "Dictionary"
    /\ arg_to_type.tag = "Dictionary"
    /\ arg_to_type.key.tag \in IntegerTags
\* the slots whose non-null key the target key type does not hold
LostKeys ==
    {i \in 1..Len(arg_array.keys) :
        IsSome(arg_array.keys[i])
        /\ ~Representable(Unwrap(arg_array.keys[i]), arg_to_type.key.tag)}
\* the call on an array of the same type without slots succeeds
StaticallySupported ==
    cast_with_options(new_null_array(arg_array.data_type, 0), arg_to_type, arg_safe).ok

\* C2: with safe = true, on a pair the dispatcher supports, no value of the
\* array makes the call return an error; the output has the input's length.
C2_SafeNeverErrors ==
    Done /\ arg_safe /\ StaticallySupported
        => result.ok /\ array_len(result.array) = array_len(arg_array)

\* C6: a dictionary to dictionary cast with a non-null key the target key
\* type does not hold returns an error in both modes; under safe = true, the
\* values being cast, the error reports the number of such keys and the two
\* key types.
C6_RekeyFailureIsError ==
    DictCall /\ LostKeys # {}
        => /\ ~result.ok
           /\ arg_safe /\ cast_with_options(arg_array.dict, arg_to_type.value, TRUE).ok
                 => result = Err("ComputeError",
                                 "Could not convert {} dictionary indexes from {} to {}",
                                 <<Cardinality(LostKeys), arg_array.data_type.key,
                                   arg_to_type.key>>)
           /\ arg_safe /\ arg_array.keys = TestDictValues
                 /\ arg_to_type = Dictionary(T("Int8"), T("Utf8"))
                 => result.args = <<72, T("Int32"), T("Int8")>>

\* the call of test_cast_dict_to_dict_bad_index_value_primitive returned
C6_Witness ==
    /\ DictCall /\ arg_safe /\ ~result.ok
    /\ arg_array.data_type = Dictionary(T("Int32"), T("Int64"))
    /\ arg_array.keys = TestDictValues
    /\ arg_to_type = Dictionary(T("Int8"), T("Utf8"))

----------------------------------------------------------------------------
(* integers to decimals, decimals to integers *)
IntegerDecimalCall ==
    Done /\ arg_array.data_type.tag \in IntegerTags /\ arg_to_type.tag \in DecimalTags
\* 10^|s| is a value of the native integer of the target
ScaleFactorFits == Pow10(Abs(arg_to_type.scale)) <= native_max(arg_to_type.tag)
\* v * 10^s, or v / 10^|s| truncated toward zero when s < 0
Scaled(v) ==
    IF arg_to_type.scale >= 0 THEN v * Pow10(arg_to_type.scale)
    ELSE IF v >= 0 THEN v \div Pow10(-arg_to_type.scale)
    ELSE -((-v) \div Pow10(-arg_to_type.scale))
\* the arithmetic on v overflows, or its result exceeds the precision
Unstorable(v) ==
    \/ arg_to_type.scale >= 0 /\ ~ProductFits(v, Pow10(arg_to_type.scale))
    \/ ~FitsPrecision(Scaled(v), arg_to_type.precision)
UnstorableSlots ==
    {i \in 1..array_len(arg_array) :
        IsSome(arg_array.values[i]) /\ Unstorable(Unwrap(arg_array.values[i]))}
FirstUnstorable == CHOOSE i \in UnstorableSlots : \A j \in UnstorableSlots : i <= j

\* C11: an integer cast to a valid Decimal(p, s) whose scale factor is
\* representable: every non-null v becomes v * 10^s (s >= 0) or v / 10^|s|
\* truncated (s < 0); a value whose arithmetic overflows or whose result
\* exceeds precision p is null under safe = true, and under safe = false the
\* cast is an error, which for a result above the precision reads "{} is too
\* large to store in a {} of precision {}. Max is {}".
C11_IntegerToDecimal ==
    IntegerDecimalCall /\ ValidTarget /\ ScaleFactorFits
        => IF arg_safe \/ UnstorableSlots = {}
           THEN /\ result.ok
                /\ result.array.data_type = arg_to_type
                /\ result.array.values =
                       [i \in 1..array_len(arg_array) |->
                           IF i \in UnstorableSlots \/ ~IsSome(arg_array.values[i]) THEN None
                           ELSE Some(Scaled(Unwrap(arg_array.values[i])))]
           ELSE /\ ~result.ok
                /\ LET v == Unwrap(arg_array.values[FirstUnstorable])
                   IN  (arg_to_type.scale < 0 \/ ProductFits(v, Pow10(arg_to_type.scale)))
                       /\ Scaled(v) > 0
                           => /\ result.error = "InvalidArgumentError"
                              /\ result.text =
                                     "{} is too large to store in a {} of precision {}. Max is {}"
                              /\ result.args = <<Scaled(v), arg_to_type.tag,
                                                 arg_to_type.precision,
                                                 Pow10(arg_to_type.precision) - 1>>

\* the input of test_cast_numeric_to_decimal128_precision_overflow next to a
\* value that fits, under safe = true
C11_Witness ==
    /\ IntegerDecimalCall /\ arg_safe
    /\ arg_array = PrimitiveArray(T("Int64"), <<Some(1234567), Some(-5)>>)
    /\ arg_to_type = Decimal256(7, 2)
    /\ result = Ok(PrimitiveArray(arg_to_type, <<None, Some(-500)>>))

DecimalIntegerCall ==
    Done /\ arg_array.data_type.tag \in DecimalTags /\ arg_to_type.tag \in IntegerTags
\* x / 10^s truncated toward zero
Quotient(x) ==
    IF x >= 0 THEN x \div Pow10(arg_array.data_type.scale)
    ELSE -((-x) \div Pow10(arg_array.data_type.scale))
OutOfRangeSlots ==
    {i \in 1..array_len(arg_array) :
        /\ IsSome(arg_array.values[i])
        /\ ~Representable(Quotient(Unwrap(arg_array.values[i])), arg_to_type.tag)}
FirstOutOfRange == CHOOSE i \in OutOfRangeSlots : \A j \in OutOfRangeSlots : i <= j

\* C13: a Decimal(p, s) with s >= 0 (and 10^s representable) cast to an
\* integer type T: every non-null x becomes x / 10^s truncated toward zero;
\* a quotient outside T is null under safe = true, and under safe = false the
\* cast fails with "value of {quotient} is out of range {T}" for the first
\* such value.
C13_DecimalToInteger ==
    DecimalIntegerCall /\ arg_array.data_type.scale >= 0
        /\ Pow10(arg_array.data_type.scale) <= native_max(arg_array.data_type.tag)
        => IF arg_safe \/ OutOfRangeSlots = {}
           THEN result =
                    Ok(PrimitiveArray(arg_to_type,
                           [i \in 1..array_len(arg_array) |->
                               IF i \in OutOfRangeSlots \/ ~IsSome(arg_array.values[i])
                               THEN None
                               ELSE Some(Quotient(Unwrap(arg_array.values[i])))]))
           ELSE result =
                    Err("CastError", "value of {} is out of range {}",
                        <<Quotient(Unwrap(arg_array.values[FirstOutOfRange])), arg_to_type>>)

\* the overflow case of test_cast_decimal_to_numeric: 513.00 to UInt8
C13_Witness ==
    /\ DecimalIntegerCall /\ ~arg_safe
    /\ arg_array = PrimitiveArray(Decimal128(38, 2), <<Some(51300)>>)
    /\ arg_to_type = T("UInt8")
    /\ result.args = <<513, T("UInt8")>>

----------------------------------------------------------------------------
(* the precision of decimals made from floating-point numbers *)
FloatDecimalCall ==
    Done /\ arg_array.data_type.tag \in FloatTags /\ arg_to_type.tag \in DecimalTags

\* C12: a Float32/Float64 cast to Decimal(p, s) validates the rounded value
\* against the precision: no non-null output value has a magnitude of 10^p or
\* more, and under safe = false a value that rounds to such a number makes the
\* cast an error.
C12_FloatOutputFitsPrecision ==
    FloatDecimalCall /\ ValidTarget /\ result.ok
        => \A i \in 1..array_len(result.array) :
               IsSome(result.array.values[i])
                   => FitsPrecision(Unwrap(result.array.values[i]), arg_to_type.precision)

----------------------------------------------------------------------------
(* strings and decimals *)
StringDecimalCall ==
    Done /\ arg_array.data_type.tag \in StringTags /\ arg_to_type.tag \in DecimalTags

\* an unsigned numeral "I.F": digits, one point, at least one digit after it
IsNumeral(str) ==
    /\ Cardinality({k \in 1..Len(str) : str[k] = "."}) = 1
    /\ \A k \in 1..Len(str) : str[k] = "." \/ is_digit(str[k])
    /\ str[Len(str)] # "."
PointOf(str) == CHOOSE k \in 1..Len(str) : str[k] = "."
\* the value of the numeral in units of 10^-scale: exact when F has at most
\* scale digits, rounded with ties away from zero otherwise
NumeralValue(str, scale) ==
    LET I == digits_value(SubSeq(str, 1, PointOf(str) - 1))
        F == digits_value(SubSeq(str, PointOf(str) + 1, Len(str)))
        n == Len(str) - PointOf(str)
    IN  IF n <= scale THEN I * Pow10(scale) + F * Pow10(scale - n)
        ELSE HalfAway(I * Pow10(n) + F, Pow10(n - scale))
\* the slots holding a numeral whose value the native integer of the target holds
NumeralSlots ==
    {i \in 1..array_len(arg_array) :
        /\ IsSome(arg_array.values[i])
        /\ IsNumeral(Unwrap(arg_array.values[i]))
        /\ fits_native(NumeralValue(Unwrap(arg_array.values[i]), arg_to_type.scale),
                       arg_to_type.tag)}

\* C14: a string holding an unsigned numeral "I.F" (I possibly empty) cast to
\* a valid decimal of scale s >= 0 gives I * 10^s + F * 10^(s - len(F)) when F
\* has at most s digits, and the exact value rounded to s fractional digits
\* with ties away from zero when F has more; the cast succeeds under safe =
\* true, and under safe = false when every non-null slot holds such a numeral.
C14_StringNumeralToDecimal ==
    StringDecimalCall /\ ValidTarget /\ arg_to_type.scale >= 0
        /\ (arg_safe \/ \A i \in 1..array_len(arg_array) :
                            IsSome(arg_array.values[i]) => i \in NumeralSlots)
        => /\ result.ok
           /\ \A i \in NumeralSlots :
                  result.array.values[i] =
                      Some(NumeralValue(Unwrap(arg_array.values[i]), arg_to_type.scale))

\* ".1265" and "1.265" at scale 2, under safe = false
C14_Witness ==
    /\ StringDecimalCall /\ ~arg_safe
    /\ arg_array = PrimitiveArray(T("Utf8"), <<Some(<<".", "1", "2", "6", "5">>),
                                               Some(<<"1", ".", "2", "6", "5">>)>>)
    /\ arg_to_type = Decimal128(38, 2)
    /\ result = Ok(PrimitiveArray(arg_to_type, <<Some(13), Some(127)>>))

\* the pairs of slots <<i, j>> where slot i holds the numeral of slot j behind
\* a minus sign, and the numeral of slot j was accepted
NegatedPairs ==
    {ij \in (1..array_len(arg_array)) \X (1..array_len(arg_array)) :
        /\ IsSome(arg_array.values[ij[1]]) /\ IsSome(arg_array.values[ij[2]])
        /\ Unwrap(arg_array.values[ij[1]]) = <<"-">> \o Unwrap(arg_array.values[ij[2]])
        /\ Unwrap(arg_array.values[ij[2]]) # <<>>
        /\ \A k \in 1..Len(Unwrap(arg_array.values[ij[2]])) :
               Unwrap(arg_array.values[ij[2]])[k] = "."
               \/ is_digit(Unwrap(arg_array.values[ij[2]])[k])
        /\ IsSome(result.array.values[ij[2]])}

\* C25: for every numeral N that the parsing accepts at scale s, "-N" is
\* parsed to the negation of the value of N, also when N has more fractional
\* digits than s: a negative numeral is rounded half away from zero.
C25_NegationSymmetry ==
    StringDecimalCall /\ arg_safe /\ result.ok
        => \A ij \in NegatedPairs :
               result.array.values[ij[1]] = Some(-Unwrap(result.array.values[ij[2]]))

\* C16: a string array cast to a decimal with a negative scale, or a scale
\* above the maximum of the decimal type, is an invalid-argument error about
\* the scale, in both safety modes and whatever the array holds.
C16_StringToDecimalScaleRejected ==
    StringDecimalCall
        => /\ arg_to_type.scale < 0
                  => result = Err("InvalidArgumentError",
                                  "Cannot cast string to decimal with negative scale {}",
                                  <<arg_to_type.scale>>)
           /\ arg_to_type.scale > max_precision(arg_to_type.tag)
                  => result = Err("InvalidArgumentError",
                                  "Cannot cast string to decimal greater than maximum scale {}",
                                  <<max_precision(arg_to_type.tag)>>)

\* an all-null array and a negative scale, under safe = true
C16_Witness ==
    /\ StringDecimalCall /\ arg_safe
    /\ arg_array = PrimitiveArray(T("LargeUtf8"), <<None>>)
    /\ arg_to_type = Decimal256(76, -2)
    /\ ~result.ok

DecimalStringRoundTrip ==
    Back /\ arg_array.data_type.tag \in DecimalTags /\ arg_to_type.tag \in StringTags
\* every value of the argument fits the precision of its type
ArgumentFitsPrecision ==
    \A i \in 1..array_len(arg_array) :
        IsSome(arg_array.values[i])
            => FitsPrecision(Unwrap(arg_array.values[i]), arg_array.data_type.precision)

\* C15: a Decimal(p, s) array with s >= 0 whose values fit precision p, cast
\* to a string type and back to Decimal(p, s), is the original array again.
C15_DecimalStringRoundTrip ==
    DecimalStringRoundTrip /\ arg_array.data_type.scale >= 0 /\ ArgumentFitsPrecision
        => round_trip = Ok(arg_array)

----------------------------------------------------------------------------
(* temporal casts *)
\* the number of ticks of a unit in a second, as a power of 1000
UnitPower(unit) ==
    CASE unit = "Second" -> 0
      [] unit = "Millisecond" -> 1
      [] unit = "Microsecond" -> 2
      [] unit = "Nanosecond" -> 3
Thousands(n) == [i \in 1..n |-> 1000]
IsTime(data_type) == data_type.tag \in {"Time32", "Time64"}
\* the number that slot i of an array holds
NumberAt(array, i) == slot_i64(Unwrap(array.values[i]), array.data_type)
NonNullSlots == {i \in 1..array_len(arg_array) : IsSome(arg_array.values[i])}

TimeCall ==
    /\ Done /\ IsTime(arg_array.data_type) /\ IsTime(arg_to_type)
    /\ arg_array.data_type.unit # arg_to_type.unit
\* x ticks of the unit of the argument in ticks of the unit of the target
Rescale(x) ==
    LET from == UnitPower(arg_array.data_type.unit)
        to == UnitPower(arg_to_type.unit)
    IN  IF to >= from THEN wide_mul(x, Thousands(to - from))
        ELSE wide_div(x, Thousands(from - to))

\* C18: a cast between Time32/Time64 types of different units maps every
\* non-null value x to x * (ticks of the target unit in a second) / (ticks of
\* the source unit in a second), the division truncating.
C18_TimeUnitRatio ==
    TimeCall
        => /\ result.ok
           /\ \A i \in NonNullSlots :
                  /\ IsSome(result.array.values[i])
                  /\ NumberAt(result.array, i) = Rescale(NumberAt(arg_array, i))

\* the casts that multiply by the ratio of two units, and that ratio
Promoting ==
    LET f == arg_array.data_type
        t == arg_to_type
    IN  \/ IsTime(f) /\ IsTime(t) /\ UnitPower(f.unit) < UnitPower(t.unit)
        \/ f.tag = "Date64" /\ t.tag = "Timestamp" /\ t.tz = "None" /\ UnitPower(t.unit) > 1
        \/ f.tag = "Date32" /\ t.tag = "Timestamp" /\ t.tz = "None"
        \/ f.tag = "Timestamp" /\ t.tag = "Timestamp" /\ UnitPower(f.unit) < UnitPower(t.unit)
UnitRatio ==
    LET f == arg_array.data_type
        t == arg_to_type
    IN  IF f.tag = "Date64" THEN Thousands(UnitPower(t.unit) - 1)
        ELSE IF f.tag = "Date32" THEN <<86400>> \o Thousands(UnitPower(t.unit))
        ELSE Thousands(UnitPower(t.unit) - UnitPower(f.unit))
\* the slots whose product is not a value of the integer behind the target
OverflowSlots ==
    {i \in NonNullSlots :
        ~fits(wide_mul(NumberAt(arg_array, i), UnitRatio),
              IF arg_to_type.tag = "Time32" THEN I32_MAX ELSE I64_MAX)}

\* C17: in a cast that multiplies by a unit ratio, an element whose product
\* does not fit the integer behind the target is null under safe = true and
\* makes the call an error under safe = false; the call never panics and never
\* returns a wrapped value.
C17_PromotionChecked ==
    Done /\ Promoting
        => /\ result.ok \/ result.error # "Panic"
           /\ arg_safe => /\ result.ok
                          /\ \A i \in OverflowSlots : result.array.values[i] = None
           /\ ~arg_safe /\ OverflowSlots # {} => ~result.ok

\* the offset of a timezone from UTC in seconds
UtcOffset(tz) == IF tz = "+08:00" THEN 28800 ELSE 0
FloorDiv(a, b) == IF a >= 0 THEN a \div b ELSE -((-a + b - 1) \div b)
\* the instants of the argument whose count of seconds is an integer of the model
NearSlots ==
    {i \in NonNullSlots :
        fits(wide_div(NumberAt(arg_array, i), Thousands(UnitPower(arg_array.data_type.unit))),
             Wide(FALSE, <<2, 0, 0, 0>>))}
\* the day, counted from 1970-01-01, of the local date of the instant of slot i
LocalDay(i) ==
    LET x == NumberAt(arg_array, i)
        ticks == Thousands(UnitPower(arg_array.data_type.unit))
        whole == wide_div(x, ticks)
        seconds == IF x.neg /\ wide_mul(whole, ticks) # x THEN to_int(whole) - 1
                   ELSE to_int(whole)
    IN  FloorDiv(seconds + UtcOffset(arg_array.data_type.tz), 86400)

\* C19: Timestamp(unit, tz) cast to Date32 gives, for every non-null instant,
\* the day since 1970-01-01 of the local date of the instant in the timezone
\* tz (UTC when there is none).
C19_TimestampToLocalDate ==
    Done /\ arg_array.data_type.tag = "Timestamp" /\ arg_to_type.tag = "Date32"
        => /\ result.ok
           /\ \A i \in NearSlots : result.array.values[i] = Some(LocalDay(i))

\* C20: Date32 to Date64 multiplies every non-null day count by 86,400,000,
\* Date64 to Date32 divides every non-null millisecond count by 86,400,000 and
\* drops the remainder, and null elements stay null.
C20_DateDays ==
    /\ Done /\ arg_array.data_type.tag = "Date32" /\ arg_to_type.tag = "Date64"
           => /\ result.ok
              /\ \A i \in 1..array_len(arg_array) :
                     result.array.values[i] =
                         IF i \in NonNullSlots
                         THEN Some(wide_mul(NumberAt(arg_array, i), <<864, 100000>>))
                         ELSE None
    /\ Done /\ arg_array.data_type.tag = "Date64" /\ arg_to_type.tag = "Date32"
           => /\ result.ok
              /\ \A i \in 1..array_len(arg_array) :
                     IF i \in NonNullSlots
                     THEN /\ IsSome(result.array.values[i])
                          /\ NumberAt(result.array, i)
                                 = wide_div(NumberAt(arg_array, i), <<864, 100000>>)
                     ELSE result.array.values[i] = None

----------------------------------------------------------------------------
(* lists *)
\* a list of integers was cast to a list of integers of the same offset width
ListCall ==
    /\ Done
    /\ arg_array.data_type.tag \in {"List", "LargeList"}
    /\ arg_to_type.tag = arg_array.data_type.tag
    /\ arg_array.data_type.child.tag \in IntegerTags
    /\ arg_to_type.child.tag \in IntegerTags
    /\ arg_to_type.child # arg_array.data_type.child
\* the slots of the child whose value the target's child type does not hold
LostChildSlots ==
    {k \in 1..Len(arg_array.child.values) :
        IsSome(arg_array.child.values[k])
        /\ ~Representable(Unwrap(arg_array.child.values[k]), arg_to_type.child.tag)}

\* C21: a cast of List<T> to List<U>, or of LargeList<T> to LargeList<U>,
\* keeps the offsets and the validity of the lists and replaces the child by
\* its cast to U under the same options: with safe = true an element U does
\* not hold becomes a null element and its list stays valid, with
\* safe = false such an element is the error of the call.
C21_ListInnerCast ==
    ListCall
        => IF arg_safe \/ LostChildSlots = {}
           THEN /\ result.ok
                /\ result.array.data_type = arg_to_type
                /\ result.array.offsets = arg_array.offsets
                /\ result.array.nulls = arg_array.nulls
                /\ null_count(result.array) = null_count(arg_array)
                /\ result.array.child.data_type = arg_to_type.child
                /\ Len(result.array.child.values) = Len(arg_array.child.values)
                /\ \A k \in 1..Len(arg_array.child.values) :
                      result.array.child.values[k] =
                          IF k \in LostChildSlots THEN None ELSE arg_array.child.values[k]
                /\ arg_array = TestListArray /\ arg_to_type = List(T("UInt16"))
                      => result.array.child.values =
                             <<Some(0), Some(0), Some(0), None, None, None, Some(2), None>>
           ELSE \E k \in LostChildSlots :
                    /\ \A j \in LostChildSlots : k <= j
                    /\ result = Err("CastError", "Can't cast value {} to type {}",
                                    <<Unwrap(arg_array.child.values[k]), arg_to_type.child>>)

\* the call of test_cast_list_i32_to_list_u16 returned
C21_Witness ==
    /\ ListCall /\ arg_safe /\ result.ok
    /\ arg_array = TestListArray
    /\ arg_to_type = List(T("UInt16"))
    /\ LostChildSlots = {4, 5, 6, 8}

\* an array that is not a list was cast to a list
ToListCall ==
    /\ Done
    /\ arg_array.data_type.tag \notin {"List", "LargeList"}
    /\ arg_to_type.tag \in {"List", "LargeList"}
\* the cast of the argument to the child type of the target
ChildCast == cast_with_options(arg_array, arg_to_type.child, arg_safe)
\* the result is one list of one element for every element of the child cast
SingleElementLists ==
    LET child == ChildCast
    IN  IF child.ok
        THEN /\ result.ok
             /\ result.array.data_type = arg_to_type
             /\ array_len(result.array) = array_len(arg_array)
             /\ result.array.offsets = [i \in 1..(array_len(arg_array) + 1) |-> i - 1]
             /\ result.array.child = child.array
             /\ result.array.nulls = validity(child.array)
             /\ null_count(result.array) = null_count(child.array)
        ELSE child.error = "NotModelled" \/ result = child

\* C22, for every argument that is not a list: the cast to List<U> or
\* LargeList<U> gives one list per element with the offsets 0, 1, ..., n, list
\* i holding the one element i of the cast of the argument to U and being
\* null exactly when that element is null.
C22_SingleElementLists == ToListCall => SingleElementLists

\* C22, for the arguments that reach cast_primitive_to_list (arrays of a type
\* other than Null, Dictionary, List and LargeList): one list per element
\* with the offsets 0, 1, ..., n, list i holding the one element i of the cast
\* of the argument to U and being null exactly when that element is null.
C22_PrimitiveToList ==
    ToListCall /\ arg_array.data_type.tag \notin {"Null", "Dictionary"} => SingleElementLists

\* an integer array with a value the child type does not hold was wrapped
C22_Witness ==
    /\ ToListCall /\ arg_safe /\ result.ok
    /\ arg_array = PrimitiveArray(T("Int32"), <<Some(-5), Some(6)>>)
    /\ arg_to_type = List(T("UInt8"))
    /\ result.array.nulls = <<FALSE, TRUE>>
    /\ result.array.offsets = <<0, 1, 2>>

----------------------------------------------------------------------------
(* structs *)
\* a call with two distinct types, one of them a Struct, on an array whose type
\* is not Null
StructCall ==
    /\ Done
    /\ arg_array.data_type # arg_to_type
    /\ arg_array.data_type.tag # "Null"
    /\ arg_array.data_type.tag = "Struct" \/ arg_to_type.tag = "Struct"

\* C23: for two distinct types and an argument whose type is not Null,
\* can_cast_types is false and the cast fails whenever the type of the
\* argument or the target is a Struct, whatever the other type is.
C23_StructNeverCast ==
    StructCall => ~can_cast_types(arg_array.data_type, arg_to_type) /\ ~result.ok

----------------------------------------------------------------------------
(* timestamps to times of day *)
TimestampTimeCall ==
    /\ Done
    /\ arg_array.data_type.tag = "Timestamp"
    /\ arg_to_type.tag \in {"Time32", "Time64"}
\* whether x lies after the last or before the first second of chrono's
\* dates (the years -262144 to 262143), in the unit of the argument
BeyondChrono(x) ==
    LET behind == CASE arg_array.data_type.unit = "Second" -> 0
                    [] arg_array.data_type.unit = "Millisecond" -> 1
                    [] arg_array.data_type.unit = "Microsecond" -> 2
                    [] arg_array.data_type.unit = "Nanosecond" -> 3
    IN  IF x.neg
        THEN mag_lt(<<8, 334, 632, 851, 200>> \o [i \in 1..behind |-> 0], x.groups)
        ELSE mag_lt(<<8, 210, 298, 412, 799>> \o [i \in 1..behind |-> 999], x.groups)
\* the slots whose instant has no date-time
UnresolvedSlots ==
    {i \in 1..Len(arg_array.values) :
        IsSome(arg_array.values[i]) /\ BeyondChrono(Unwrap(arg_array.values[i]))}

\* C24: a cast of a Timestamp array to Time32 or Time64 with a non-null
\* instant that has no date-time returns an error and no array, also with
\* safe = true; the instant is not made a null slot.
C24_UnresolvedInstantIsError ==
    TimestampTimeCall /\ UnresolvedSlots # {}
        => /\ ~result.ok
           /\ result.error = "CastError"
           /\ \E i \in UnresolvedSlots :
                 /\ \A j \in UnresolvedSlots : i <= j
                 /\ result.args[2] = Unwrap(arg_array.values[i])

\* the last call of test_cast_timestamp_to_time32 returned, under safe = true
C24_Witness ==
    /\ TimestampTimeCall /\ arg_safe /\ ~result.ok
    /\ arg_array = PrimitiveArray(Timestamp("Second", "+01:00"), <<Some(I64_MAX)>>)
    /\ arg_to_type = Time32("Millisecond")

\* the casts of test_cast_timestamp_to_time64 and test_cast_timestamp_to_time32
\* on the instant 86405 s at +01:00 give 3605 s of the day
TimestampTimeTests ==
    /\ TimestampTimeCall
    /\ arg_array.data_type = Timestamp("Second", "+01:00")
    /\ arg_array.values = <<Some(Wide(FALSE, <<86, 405>>)), None>>
    => /\ result.ok
       /\ result.array.values[2] = None
       /\ result.array.values[1] =
              CASE arg_to_type = Time32("Second") -> Some(3605)
                [] arg_to_type = Time32("Millisecond") -> Some(3605000)
                [] arg_to_type = Time64("Microsecond") -> Some(Wide(FALSE, <<3, 605, 0, 0>>))
                [] arg_to_type = Time64("Nanosecond") -> Some(Wide(FALSE, <<3, 605, 0, 0, 0>>))

----------------------------------------------------------------------------
(* dictionaries and their logical values *)
\* a dictionary was cast to a type that is not a dictionary
UnpackCall ==
    /\ Done
    /\ arg_array.data_type.tag = "Dictionary"
    /\ arg_to_type.tag # "Dictionary"
\* the flat array of the logical values: values[keys[i]], null at a null key
LogicalValues ==
    PrimitiveArray(arg_array.data_type.value,
                   [i \in 1..Len(arg_array.keys) |->
                       IF IsSome(arg_array.keys[i])
                       THEN arg_array.dict.values[Unwrap(arg_array.keys[i]) + 1]
                       ELSE None])
\* the cast of the flat array under the options of the call
FlatCast == cast_with_options(LogicalValues, arg_to_type, arg_safe)

\* C26: the cast of a dictionary to a type that is not a dictionary has the
\* outcome of the cast of the flat array of its logical values under the same
\* options: the same array when that cast succeeds, and an error exactly when
\* it fails, that is when the value some row refers to does not convert.
C26_UnpackEqualsFlatCast ==
    LET flat == FlatCast
    IN  UnpackCall /\ (flat.ok \/ flat.error # "NotModelled")
            => IF flat.ok THEN result = flat ELSE ~result.ok

----------------------------------------------------------------------------
(* intervals to durations *)
IntervalDurationCall ==
    /\ Done
    /\ arg_array.data_type = Interval("MonthDayNano")
    /\ arg_to_type.tag = "Duration"
\* the interval value x divided by the nanoseconds of the unit of the target
DurationQuotient(x) ==
    wide_div(x, CASE arg_to_type.unit = "Second" -> <<1000, 1000, 1000>>
                  [] arg_to_type.unit = "Millisecond" -> <<1000, 1000>>
                  [] arg_to_type.unit = "Microsecond" -> <<1000>>
                  [] arg_to_type.unit = "Nanosecond" -> <<1>>)
\* the slots whose quotient is no signed 64-bit integer
WideQuotientSlots ==
    {i \in 1..Len(arg_array.values) :
        IsSome(arg_array.values[i])
        /\ ~fits(DurationQuotient(Unwrap(arg_array.values[i])), I64_MAX)}

\* C27: Interval(MonthDayNano) cast to Duration(unit) divides every non-null
\* 128-bit value by the nanoseconds of the unit; a quotient above i64::MAX or
\* below i64::MIN is a null slot under safe = true and an error of the call
\* under safe = false, and no truncated or wrapped duration is produced.
C27_IntervalToDuration ==
    IntervalDurationCall
        => IF arg_safe \/ WideQuotientSlots = {}
           THEN /\ result.ok
                /\ Len(result.array.values) = Len(arg_array.values)
                /\ \A i \in 1..Len(arg_array.values) :
                      result.array.values[i] =
                          IF IsSome(arg_array.values[i]) /\ i \notin WideQuotientSlots
                          THEN Some(DurationQuotient(Unwrap(arg_array.values[i])))
                          ELSE None
           ELSE ~result.ok

----------------------------------------------------------------------------
(* composite casts *)
\* the intermediate type of a composite cast, none for the other pairs
composite_mid(from_type, to_type) ==
    CASE from_type.tag = "Int64" /\ to_type.tag = "Date32" -> Some(T("Int32"))
      [] from_type.tag = "Date32" /\ to_type.tag = "Int64" -> Some(T("Int32"))
      [] from_type.tag = "Int32" /\ to_type.tag = "Date64" -> Some(T("Date32"))
      [] from_type.tag = "Date64" /\ to_type.tag = "Int32" -> Some(T("Int64"))
      [] OTHER -> None
CompositeCall == pc # "start" /\ IsSome(composite_mid(arg_array.data_type, arg_to_type))
\* the two calls of the chain, the second one on the array of the first
TwoStepChain ==
    LET first == cast_with_options(arg_array, Unwrap(composite_mid(arg_array.data_type, arg_to_type)),
                                   arg_safe)
    IN  IF first.ok THEN cast_with_options(first.array, arg_to_type, arg_safe) ELSE first
\* the slots of the Int64 argument whose value is outside the range of Int32
OutsideInt32 ==
    {i \in 1..array_len(arg_array) :
        /\ IsSome(arg_array.values[i])
        /\ holds_wide(arg_array)
        /\ ~fits(arg_array.values[i][1], I32_MAX)}

\* C28: a composite cast (Int64 to Date32, Date32 to Int64, Int32 to Date64,
\* Date64 to Int32) returns what its two-step chain through the intermediate
\* type returns under the same options, and Int64 to Date32 under safe = true
\* succeeds with a null in every slot whose value is outside the range of
\* Int32 and the value itself in every other slot
C28_CompositeEqualsChain ==
    CompositeCall =>
        /\ result = TwoStepChain
        /\ (arg_array.data_type.tag = "Int64" /\ arg_to_type.tag = "Date32" /\ arg_safe) =>
               /\ result.ok
               /\ result.array.data_type = T("Date32")
               /\ array_len(result.array) = array_len(arg_array)
               /\ \A i \in 1..array_len(arg_array) :
                      result.array.values[i] =
                          IF i \in OutsideInt32 \/ ~IsSome(arg_array.values[i]) THEN None
                          ELSE IF holds_wide(arg_array)
                          THEN Some(to_int(Unwrap(arg_array.values[i])))
                          ELSE arg_array.values[i]
C28_Witness ==
    /\ CompositeCall
    /\ arg_array.data_type.tag = "Int64" /\ arg_to_type.tag = "Date32" /\ arg_safe
    /\ OutsideInt32 # {}
    /\ \E i \in 1..array_len(arg_array) : IsSome(result.array.values[i])

----------------------------------------------------------------------------
(* decimals with a negative scale to integers *)
NegativeScaleCall == DecimalIntegerCall /\ arg_array.data_type.scale < 0

\* C30: a Decimal128 or Decimal256 array whose type has a negative scale,
\* cast to an integer type, gives the error "Cannot cast to {}. The scale {}
\* causes overflow." with the decimal type and the scale, for every array
\* (empty and all-null ones too) and under both values of safe
C30_NegativeScaleIsError ==
    NegativeScaleCall =>
        result = Err("CastError", "Cannot cast to {}. The scale {} causes overflow.",
                     <<arg_array.data_type.tag, arg_array.data_type.scale>>)
C30_Witness ==
    /\ NegativeScaleCall
    /\ arg_array.data_type.tag = "Decimal256"
    /\ arg_safe
    /\ null_count(arg_array) = array_len(arg_array)
    /\ ~result.ok

----------------------------------------------------------------------------
(* lengths and nulls *)
\* whether slot i of the array is null: no value in the slot or, in a
\* dictionary array, a key that names a null value
is_null(a, i) ==
    \/ ~validity(a)[i]
    \/ a.data_type.tag = "Dictionary" /\ ~validity(a.dict)[Unwrap(a.keys[i]) + 1]
\* out has the slots of in, with a null wherever in has one
KeepsLengthAndNulls(in, out) ==
    /\ array_len(out) = array_len(in)
    /\ \A i \in 1..array_len(in) : is_null(in, i) => is_null(out, i)

\* C29: the array a successful cast returns has as many slots as the input
\* array, and a null in every slot where the input has a null
C29_LengthAndNullsKept ==
    /\ pc # "start" /\ result.ok => KeepsLengthAndNulls(arg_array, result.array)
    /\ pc = "back" /\ round_trip.ok => KeepsLengthAndNulls(result.array, round_trip.array)
C29_Witness ==
    /\ Done /\ result.ok
    /\ arg_array.data_type.tag = "Dictionary"
    /\ arg_to_type.tag # "Dictionary"
    /\ \E i, j \in 1..array_len(arg_array) :
           /\ is_null(arg_array, i) /\ ~is_null(arg_array, j) /\ i < j
           /\ is_null(result.array, i) /\ ~is_null(result.array, j)

====